---- MODULE Spec2Model ----
(***************************************************************************)
(* State-machine model of searchtweets.result_stream: the retry decorator  *)
(* (retry.retried_func), the session handling (make_session, init_session) *)
(* and the pagination generator ResultStream.stream with its three output  *)
(* formats.  One run of the model is one ResultStream instance on which    *)
(* stream() is called once and whose generator is pulled by a caller.      *)
(*                                                                         *)
(* Values.  A tweet is the pair <<k, i>>: the i-th element of "data" in    *)
(* the body of the k-th completed request.  A next_token is the number of  *)
(* the page that returned it; 0 is Python's None (or an absent key).       *)
(* An optional list is None (the empty tuple) or Some(list).               *)
(***************************************************************************)
EXTENDS Integers, Sequences, FiniteSets, TLC

\* ---------------------------------------------------------------- bounds
MaxTweetsBound == 2       \* max_tweets is drawn from 0..MaxTweetsBound
MaxRequestsBound == 3     \* max_requests is drawn from 1..MaxRequestsBound
MaxItems == 2             \* a page carries 0..MaxItems tweets
MaxFailures == 1          \* non-200 replies to one executor call (Spec)
ExecFailures == 11        \* non-200 replies to one executor call (ExecSpec)
RefreshRequests == 41     \* max_requests of RefreshSpec
MaxMediaKeys == 2         \* a tweet carries 0..MaxMediaKeys media keys
MaxRefKinds == 2          \* reference keys one tweet carries (ProjectSpec)
MaxStreamItems == 3       \* the wrapped stream yields 0..MaxStreamItems items
MaxPerFile == 2           \* results_per_file is drawn from 0..MaxPerFile
MaxClock == 3             \* the clock shows the seconds 1..MaxClock
NumThreads == 2           \* threads that page at the same time
MaxThreadRequests == 3    \* requests one thread makes (CounterSpec)
MaxLegacyCalls == 3       \* calls of the legacy executor (LegacySpec)
MaxSessions == 2          \* sessions after which stream() is not called again
MaxObjects == 2           \* dictionaries in memory when merge_dicts is called
MaxDicts == 3             \* merge_dicts is called with 0..MaxDicts arguments
PairRequests == 2         \* bodies the server holds for each of two instances

\* ------------------------------------------------------ program constants
max_tries == 10
default_max_tweets == 500
refresh_every == 20
server_error_sleep == 30
min_rate_sleep == 30
rate_window == 900
pause_seconds == 2
MAX_TRIES == 3
legacy_sleep_seconds == 1

None == <<>>
Some(x) == <<x>>

Statuses == {200, 404, 429, 500}
OutputFormats == {"r", "a", "m"}
Endpoints == {"tweets/search/recent", "tweets/search/all",
              "tweets/counts/recent"}
BearerTokens == {"None", "token"}

\* A response body as the server sends it: ok = it decodes and parses as a
\* JSON object; data = number of tweets under "data" (-1: no "data" key);
\* inc = an "includes" key is present; meta = "none" (no "meta" key),
\* "plain" (meta without next_token) or "token" (meta with next_token).
Unparsable == [ok |-> FALSE, data |-> -1, inc |-> FALSE, meta |-> "none"]
Bodies == [ok : {TRUE}, data : -1..MaxItems, inc : BOOLEAN,
           meta : {"none", "plain", "token"}] \cup {Unparsable}

\* The body of a page of one tweet with includes and a next token
PagingBody == [ok |-> TRUE, data |-> 1, inc |-> TRUE, meta |-> "token"]

NoMeta == [present |-> FALSE, next_token |-> 0, result_count |-> 0]

VARIABLES
    \* constructor arguments (ResultStream.__init__)
    bearer_token, endpoint, max_tweets, max_requests, output_format,
    \* instance attributes
    request_parameters, total_results, n_requests, session,
    current_response, current_tweets, includes, meta, next_token,
    stream_started,
    \* class attribute
    session_request_counter,
    \* sessions made by make_session: how many, and which are not closed
    n_sessions, open,
    \* locals of retry.retried_func for the call in progress
    tries, total_sleep_seconds, sleep_seconds, resp_status,
    \* position of the generator returned by stream(), index of the for
    \* loop over current_tweets, and the exception that ended the generator
    pc, idx, error,
    \* history: what the call in progress did, what the generator yielded,
    \* the bodies received; max_failures is the number of non-200 replies
    \* the server may give to one executor call
    attempts, sleeps, failed, out, pages, max_failures,
    \* the bodies the server may send
    server_bodies,
    \* history of the call in progress: its last attempt ended in an
    \* exception of func, the seconds handed to time.sleep so far, and those
    \* of them that followed a 429
    func_raised, slept, rate_slept,
    \* history of the stream: the seconds handed to time.sleep by stream()
    paused,
    \* locals of formatted_output: the lookups made by extract_includes
    includes_users, includes_tweets, includes_media, includes_polls,
    includes_places,
    \* history: the parsed body of the page as execute_request received it
    received,
    \* write_result_stream: its argument results_per_file (0 is None), the
    \* items the wrapped stream has yet to yield and whether it then raises,
    \* the tuple that partition is filling or write_ndjson is writing out,
    \* the files on disk by name, _filename, and the second utcnow() shows
    results_per_file, source, source_raises, chunk, files, filename, clock,
    \* history of the sink: the items the wrapped stream has yielded, the
    \* items written, in order, and the names of the files opened, in order
    produced, written, opened,
    \* threads that each page through a ResultStream of their own: where a
    \* thread is in execute_request, the n_requests of its instance, and the
    \* value of session_request_counter it has read and not yet written back
    thread_pc, thread_n_requests, thread_loaded,
    \* utils.merge_dicts: the dictionaries in memory (heap[i] is the content
    \* of object i) and as they were at the call, the argument dicts (a
    \* tuple of objects), how many of them reduce has consumed, its
    \* accumulator and the object returned (0: none yet)
    heap, passed, dicts, reduced, acc, merged,
    \* the command-line tools: which script runs, the options given on the
    \* command line, the dictionary read from the config file, the loaded
    \* credentials, the parsed arguments and the merged configuration
    tool, argv, configfile_dict, creds_dict, args_dict, config_dict,
    \* two ResultStream instances of one process: their attributes and
    \* histories, and the bodies the server will answer each with
    instances, scripts

cfgvars == <<bearer_token, endpoint, max_tweets, max_requests, output_format,
             max_failures, server_bodies>>
pagevars == <<current_response, current_tweets, includes, meta, next_token>>
sessvars == <<session, n_sessions, open>>
callvars == <<tries, total_sleep_seconds, sleep_seconds, resp_status,
              attempts, sleeps, failed, func_raised, slept, rate_slept>>
indexvars == <<includes_users, includes_tweets, includes_media,
               includes_polls, includes_places>>
sinkvars == <<results_per_file, source, source_raises, chunk, files,
              filename, clock, produced, written, opened>>
threadvars == <<thread_pc, thread_n_requests, thread_loaded>>
mergevars == <<heap, passed, dicts, reduced, acc, merged>>
clivars == <<tool, argv, configfile_dict, creds_dict, args_dict, config_dict>>
pairvars == <<instances, scripts>>
auxvars == <<mergevars, clivars, pairvars>>
sidevars == <<indexvars, received, sinkvars, threadvars, auxvars>>
vars == <<cfgvars, pagevars, sessvars, callvars, sidevars, request_parameters,
          total_results, n_requests, stream_started,
          session_request_counter, pc, idx, error, out, pages, paused>>

\* ------------------------------------------------------------- helpers
Tweets(k, n) == [i \in 1..n |-> <<k, i>>]

Suspended == {"yielded_page", "yielded_tweet", "yielded_includes",
              "yielded_meta"}
Ended == {"done", "error"}

RetryBranch_NoStatusTest(status, t) == t < max_tries

\* retried_func, line 83: the retry branch is entered
RetryBranch(status, t) == status # 200 /\ t < max_tries

Min(a, b) == IF a <= b THEN a ELSE b
Max(a, b) == IF a >= b THEN a ELSE b

RateLimitSleep_NoFloor(t, total) ==
    Min((t * 2) * (t * 2), rate_window - total)

RateLimitSleep_NotSquared(t, total) ==
    Min(t * 2, Max(rate_window - total, min_rate_sleep))

\* retried_func, line 93: backoff after a 429
RateLimitSleep(t, total) ==
    Min((t * 2) * (t * 2), Max(rate_window - total, min_rate_sleep))

CapReached_OffByOne(total, cap) == total > cap

\* formatted_output, lines 296, 309 and 321: the item cap is reached
CapReached(total, cap) == total >= cap

StreamContinue_NoTweetCap(token, total, cap, n, maxreq) ==
    token # 0 /\ n <= maxreq

StreamContinue_NoRequestCap(token, total, cap, n, maxreq) ==
    token # 0 /\ total < cap

\* stream, line 363: another page is requested
StreamContinue(token, total, cap, n, maxreq) ==
    token # 0 /\ total < cap /\ n <= maxreq

MakeSessionFails_Never(token) == FALSE

\* make_session, lines 36-39: KeyError when there is no bearer token
MakeSessionFails(token) == token = "None"

RefreshNeeded_Late(n) == n % refresh_every = 1 /\ n > 1

\* execute_request, line 411: the session is refreshed first
RefreshNeeded(n) == n % refresh_every = 0 /\ n > 1

FullArchive_AnySearch(url) == url # "tweets/counts/recent"

\* stream, line 372: "tweets/search/all" in self.endpoint
FullArchive(url) == url = "tweets/search/all"

\* __init__, lines 201-209: 'counts' in self.endpoint
SearchType(url) == IF url = "tweets/counts/recent" THEN "counts" ELSE "tweets"

\* Paginate is cut off at ReqCap completed requests, so that a stream whose
\* pagination did not stop by itself shows as a stuck state.  The code pages
\* only while n_requests <= max_requests (ReqCapNeverBinds).
ReqCap == Max(MaxRequestsBound, max_requests) + 1

\* ---------------------------------------------------------------- Init
\* formatted_output has not been called: its lookups do not exist
NoProjection ==
    /\ includes_users = None
    /\ includes_tweets = None
    /\ includes_media = None
    /\ includes_polls = None
    /\ includes_places = None
    /\ received = None

\* write_result_stream has not been called
NoSink ==
    /\ results_per_file = 0
    /\ source = <<>>
    /\ source_raises = FALSE
    /\ chunk = <<>>
    /\ files = <<>>
    /\ filename = 0
    /\ clock = 0
    /\ produced = <<>>
    /\ written = <<>>
    /\ opened = <<>>

\* No other thread uses the class
NoThreads ==
    /\ thread_pc = <<>>
    /\ thread_n_requests = <<>>
    /\ thread_loaded = <<>>

\* merge_dicts has not been called
NoMerge ==
    /\ heap = <<>>
    /\ passed = <<>>
    /\ dicts = <<>>
    /\ reduced = 0
    /\ acc = 0
    /\ merged = 0

\* No command-line tool runs
NoCli ==
    /\ tool = "none"
    /\ argv = {}
    /\ configfile_dict = <<>>
    /\ creds_dict = <<>>
    /\ args_dict = <<>>
    /\ config_dict = <<>>

\* There is no second instance
NoPair ==
    /\ instances = <<>>
    /\ scripts = <<>>

\* The attributes of a new ResultStream and the locals of a call not made
NewInstance(failures, bodies) ==
    /\ request_parameters = [query |-> 1, next_token |-> 0]
    /\ total_results = 0
    /\ n_requests = 0
    /\ session = 0
    /\ current_response = 0
    /\ current_tweets = None
    /\ includes = 0
    /\ meta = NoMeta
    /\ next_token = 0
    /\ stream_started = FALSE
    /\ session_request_counter = 0
    /\ n_sessions = 0
    /\ open = {}
    /\ tries = 0
    /\ total_sleep_seconds = 0
    /\ sleep_seconds = 0
    /\ resp_status = 0
    /\ idx = 0
    /\ attempts = 0
    /\ sleeps = 0
    /\ failed = 0
    /\ func_raised = FALSE
    /\ slept = 0
    /\ rate_slept = 0
    /\ pages = <<>>
    /\ paused = 0
    /\ max_failures = failures
    /\ server_bodies = bodies

InitState(failures, bodies) ==
    /\ NewInstance(failures, bodies)
    /\ pc = "created"
    /\ error = "none"
    /\ out = <<>>
    /\ NoProjection
    /\ NoSink
    /\ NoThreads
    /\ NoMerge
    /\ NoCli
    /\ NoPair

Init ==
    /\ bearer_token \in BearerTokens
    /\ endpoint \in Endpoints
    /\ max_tweets \in 0..MaxTweetsBound
    /\ max_requests \in 1..MaxRequestsBound
    /\ output_format \in OutputFormats
    /\ InitState(MaxFailures, Bodies)

\* ------------------------------------------------------------- actions

\* The locals of retried_func (lines 67-69) and the history of the call: as
\* a call starts, and again when its frame is gone.
NewFrame ==
    /\ tries' = 0
    /\ total_sleep_seconds' = 0
    /\ sleep_seconds' = 0
    /\ resp_status' = 0
    /\ attempts' = 0
    /\ sleeps' = 0
    /\ failed' = 0
    /\ func_raised' = FALSE
    /\ slept' = 0
    /\ rate_slept' = 0

Closed_Skipped(sessions, old) == sessions

\* init_session, lines 389-390: the session the instance holds is closed
Closed(sessions, old) == sessions \ {old}

\* execute_request up to the first attempt: the refresh of line 411 and the
\* locals of retried_func (lines 67-69).  make_session cannot fail here:
\* stream() has already opened a session with the same bearer_token.
EnterExecute ==
    /\ IF RefreshNeeded(n_requests)
       THEN /\ n_sessions' = n_sessions + 1
            /\ session' = n_sessions + 1
            /\ open' = Closed(open, session) \cup {n_sessions + 1}
       ELSE UNCHANGED sessvars
    /\ NewFrame
    /\ pc' = "request"

\* First pull: stream() runs init_session and enters execute_request.
StartStream ==
    /\ pc = "created"
    /\ IF MakeSessionFails(bearer_token)
       THEN /\ pc' = "error"
            /\ error' = "KeyError"
            /\ open' = Closed(open, session)
            /\ UNCHANGED <<session, n_sessions, callvars>>
       ELSE /\ n_sessions' = n_sessions + 1
            /\ session' = n_sessions + 1
            /\ open' = Closed(open, session) \cup {n_sessions + 1}
            /\ NewFrame
            /\ pc' = "request"
            /\ UNCHANGED error
    /\ UNCHANGED <<sidevars, paused, cfgvars, pagevars, request_parameters, total_results,
                   n_requests, stream_started, session_request_counter,
                   idx, out, pages>>

\* One iteration of the while loop of retried_func in which func returns a
\* response with the given status.
Attempt(status) ==
    /\ pc = "request"
    /\ status # 200 => attempts < max_failures
    /\ attempts' = attempts + 1
    /\ failed' = IF status = 429 \/ status >= 500 THEN failed + 1 ELSE failed
    /\ resp_status' = status
    /\ func_raised' = FALSE
    /\ IF RetryBranch(status, tries)
       THEN /\ tries' = tries + 1
            /\ IF status = 429
               THEN /\ sleep_seconds' =
                           RateLimitSleep(tries + 1, total_sleep_seconds)
                    /\ total_sleep_seconds' = total_sleep_seconds +
                           RateLimitSleep(tries + 1, total_sleep_seconds)
                    /\ pc' = "backoff"
                    /\ UNCHANGED error
               ELSE IF status >= 500
               THEN /\ sleep_seconds' = server_error_sleep
                    /\ pc' = "backoff"
                    /\ UNCHANGED <<total_sleep_seconds, error>>
               ELSE /\ pc' = "error"
                    /\ error' = "HTTPError"
                    /\ UNCHANGED <<total_sleep_seconds, sleep_seconds>>
       ELSE /\ pc' = "returned"
            /\ UNCHANGED <<tries, total_sleep_seconds, sleep_seconds, error>>
    /\ UNCHANGED <<sidevars, paused, cfgvars, pagevars, sessvars, request_parameters,
                   total_results, n_requests, stream_started,
                   session_request_counter, idx, sleeps, slept,
                   rate_slept, out, pages>>

AttemptRaises_Retried ==
    /\ pc = "request"
    /\ attempts' = attempts + 1
    /\ func_raised' = TRUE
    /\ IF tries < max_tries
       THEN /\ tries' = tries + 1
            /\ sleep_seconds' = server_error_sleep
            /\ pc' = "backoff"
            /\ UNCHANGED error
       ELSE /\ pc' = "error"
            /\ error' = "ConnectionError"
            /\ UNCHANGED <<tries, sleep_seconds>>
    /\ UNCHANGED <<sidevars, paused, cfgvars, pagevars, sessvars, request_parameters,
                   total_results, n_requests, stream_started,
                   session_request_counter, idx, total_sleep_seconds,
                   resp_status, sleeps, failed, slept, rate_slept, out,
                   pages>>

\* func raises requests.exceptions.ConnectionError (or HTTPError): the
\* except clauses of lines 75-81 re-raise it.
AttemptRaises ==
    /\ pc = "request"
    /\ attempts' = attempts + 1
    /\ func_raised' = TRUE
    /\ pc' = "error"
    /\ error' = "ConnectionError"
    /\ UNCHANGED <<sidevars, paused, cfgvars, pagevars, sessvars, request_parameters,
                   total_results, n_requests, stream_started,
                   session_request_counter, idx, tries, total_sleep_seconds,
                   sleep_seconds, resp_status, sleeps, failed, slept,
                   rate_slept, out, pages>>

\* time.sleep(sleep_seconds); continue  (lines 105-107)
Sleep ==
    /\ pc = "backoff"
    /\ sleeps' = sleeps + 1
    /\ slept' = slept + sleep_seconds
    /\ rate_slept' = IF resp_status = 429 /\ ~func_raised
                     THEN rate_slept + sleep_seconds ELSE rate_slept
    /\ pc' = "request"
    /\ UNCHANGED <<sidevars, paused, cfgvars, pagevars, sessvars, request_parameters,
                   total_results, n_requests, stream_started,
                   session_request_counter, idx, error, tries,
                   total_sleep_seconds, sleep_seconds, resp_status,
                   attempts, failed, func_raised, out, pages>>

DataOf_DefaultEmpty(body, k) ==
    IF body.data = -1 THEN Some(<<>>) ELSE Some(Tweets(k, body.data))

\* execute_request, line 423: resp.get("data", None) of the k-th response
DataOf(body, k) ==
    IF body.data = -1 THEN None ELSE Some(Tweets(k, body.data))

\* The rest of execute_request once request() has returned (lines 418-430),
\* and the return to stream() (line 355 after the first call).
ParseResponse(body) ==
    /\ pc = "returned"
    /\ n_requests' = n_requests + 1
    /\ session_request_counter' = session_request_counter + 1
    /\ pages' = Append(pages, body)
    /\ IF body.ok
       THEN /\ current_response' = n_requests + 1
            /\ current_tweets' = DataOf(body, n_requests + 1)
            /\ includes' = IF body.inc THEN n_requests + 1 ELSE 0
            /\ meta' = IF body.meta = "none" THEN NoMeta
                       ELSE [present |-> TRUE,
                             next_token |-> IF body.meta = "token"
                                            THEN n_requests + 1 ELSE 0,
                             result_count |-> IF body.data = -1 THEN 0
                                              ELSE body.data]
            /\ next_token' = IF body.meta = "none" THEN next_token
                             ELSE meta'.next_token
       ELSE UNCHANGED pagevars
    /\ stream_started' = TRUE
    /\ NewFrame
    /\ pc' = "top"
    /\ UNCHANGED <<sidevars, paused, cfgvars, sessvars, request_parameters,
                   total_results, idx, error, out>>

\* stream, lines 359-361: the call of formatted_output
FormatOutput ==
    /\ pc = "top"
    /\ current_tweets # None
    /\ idx' = 1
    /\ pc' = IF output_format = "r" THEN "emit_page" ELSE "emit_tweet"
    /\ UNCHANGED <<sidevars, paused, cfgvars, pagevars, sessvars, callvars,
                   request_parameters, total_results, n_requests,
                   stream_started, session_request_counter, error, out,
                   pages>>

\* output_response_format up to its yield (lines 295-298)
YieldPage ==
    /\ pc = "emit_page"
    /\ IF SearchType(endpoint) = "tweets"
          /\ CapReached(total_results, max_tweets)
       THEN pc' = "check" /\ UNCHANGED out
       ELSE /\ out' = Append(out, <<"page", current_response, 0>>)
            /\ pc' = "yielded_page"
    /\ UNCHANGED <<sidevars, paused, cfgvars, pagevars, sessvars, callvars,
                   request_parameters, total_results, n_requests,
                   stream_started, session_request_counter, idx, error,
                   pages>>

\* output_response_format after its yield (line 302)
ResumePage ==
    /\ pc = "yielded_page"
    /\ IF SearchType(endpoint) # "tweets"
       THEN /\ pc' = "check"
            /\ UNCHANGED <<total_results, error>>
       ELSE IF meta.present
       THEN /\ total_results' = total_results + meta.result_count
            /\ pc' = "check"
            /\ UNCHANGED error
       ELSE /\ pc' = "error"
            /\ error' = "TypeError"
            /\ UNCHANGED total_results
    /\ UNCHANGED <<sidevars, paused, cfgvars, pagevars, sessvars, callvars,
                   request_parameters, n_requests, stream_started,
                   session_request_counter, idx, out, pages>>

\* One step of the for loop of output_atomic_format (lines 308-311) or of
\* output_message_stream_format (lines 320-323), up to the yield.
YieldTweet ==
    /\ pc = "emit_tweet"
    /\ IF idx > Len(current_tweets[1])
          \/ CapReached(total_results, max_tweets)
       THEN /\ pc' = IF output_format = "m" THEN "emit_includes"
                     ELSE "check"
            /\ UNCHANGED out
       ELSE /\ out' = Append(out, <<"tweet", current_tweets[1][idx][1],
                                    current_tweets[1][idx][2]>>)
            /\ pc' = "yielded_tweet"
    /\ UNCHANGED <<sidevars, paused, cfgvars, pagevars, sessvars, callvars,
                   request_parameters, total_results, n_requests,
                   stream_started, session_request_counter, idx, error,
                   pages>>

ResumeTweet_NoCount ==
    /\ pc = "yielded_tweet"
    /\ idx' = idx + 1
    /\ pc' = "emit_tweet"
    /\ UNCHANGED <<sidevars, paused, cfgvars, pagevars, sessvars, callvars,
                   request_parameters, total_results, n_requests,
                   stream_started, session_request_counter, error, out,
                   pages>>

\* lines 312 and 324, after the yield
ResumeTweet ==
    /\ pc = "yielded_tweet"
    /\ total_results' = total_results + 1
    /\ idx' = idx + 1
    /\ pc' = "emit_tweet"
    /\ UNCHANGED <<sidevars, paused, cfgvars, pagevars, sessvars, callvars,
                   request_parameters, n_requests, stream_started,
                   session_request_counter, error, out, pages>>

\* output_message_stream_format, lines 327-328
YieldIncludes ==
    /\ pc = "emit_includes"
    /\ IF includes # 0
       THEN /\ out' = Append(out, <<"includes", includes, 0>>)
            /\ pc' = "yielded_includes"
       ELSE pc' = "emit_meta" /\ UNCHANGED out
    /\ UNCHANGED <<sidevars, paused, cfgvars, pagevars, sessvars, callvars,
                   request_parameters, total_results, n_requests,
                   stream_started, session_request_counter, idx, error,
                   pages>>

ResumeIncludes ==
    /\ pc = "yielded_includes"
    /\ pc' = "emit_meta"
    /\ UNCHANGED <<sidevars, paused, cfgvars, pagevars, sessvars, callvars,
                   request_parameters, total_results, n_requests,
                   stream_started, session_request_counter, idx, error,
                   out, pages>>

\* output_message_stream_format, lines 331-332
YieldMeta ==
    /\ pc = "emit_meta"
    /\ IF meta.present
       THEN /\ out' = Append(out, <<"meta", current_response, 0>>)
            /\ pc' = "yielded_meta"
       ELSE pc' = "check" /\ UNCHANGED out
    /\ UNCHANGED <<sidevars, paused, cfgvars, pagevars, sessvars, callvars,
                   request_parameters, total_results, n_requests,
                   stream_started, session_request_counter, idx, error,
                   pages>>

ResumeMeta ==
    /\ pc = "yielded_meta"
    /\ pc' = "check"
    /\ UNCHANGED <<sidevars, paused, cfgvars, pagevars, sessvars, callvars,
                   request_parameters, total_results, n_requests,
                   stream_started, session_request_counter, idx, error,
                   out, pages>>

\* stream, lines 363-375: the next page is requested
Paginate ==
    /\ pc = "check"
    /\ StreamContinue(next_token, total_results, max_tweets, n_requests,
                      max_requests)
    /\ n_requests < ReqCap
    /\ request_parameters' =
           [request_parameters EXCEPT !.next_token = next_token]
    /\ IF FullArchive(endpoint)
       THEN pc' = "pause" /\ UNCHANGED <<sessvars, callvars>>
       ELSE EnterExecute
    /\ UNCHANGED <<sidevars, paused, cfgvars, pagevars, total_results, n_requests,
                   stream_started, session_request_counter, idx, error,
                   out, pages>>

\* stream, line 373: time.sleep(2), then execute_request
Pause ==
    /\ pc = "pause"
    /\ paused' = paused + pause_seconds
    /\ EnterExecute
    /\ UNCHANGED <<sidevars, cfgvars, pagevars, request_parameters, total_results,
                   n_requests, stream_started, session_request_counter,
                   idx, error, out, pages>>

EndStream_SessionLeftOpen ==
    /\ \/ pc = "top" /\ current_tweets = None
       \/ /\ pc = "check"
          /\ ~StreamContinue(next_token, total_results, max_tweets,
                             n_requests, max_requests)
    /\ current_response' = 0
    /\ current_tweets' = None
    /\ pc' = "done"
    /\ UNCHANGED <<sidevars, paused, cfgvars, includes, meta, next_token,
                   sessvars, callvars, request_parameters, total_results,
                   n_requests, stream_started, session_request_counter, idx,
                   error, out, pages>>

\* stream, lines 359-360 and 377-383: the loop is left and the generator
\* returns
EndStream ==
    /\ \/ pc = "top" /\ current_tweets = None
       \/ /\ pc = "check"
          /\ ~StreamContinue(next_token, total_results, max_tweets,
                             n_requests, max_requests)
    /\ current_response' = 0
    /\ current_tweets' = None
    /\ open' = open \ {session}
    /\ pc' = "done"
    /\ UNCHANGED <<sidevars, paused, cfgvars, includes, meta, next_token, session, n_sessions,
                   callvars, request_parameters, total_results, n_requests,
                   stream_started, session_request_counter, idx, error,
                   out, pages>>

\* The caller stops pulling and the suspended generator is closed:
\* GeneratorExit is raised at the yield and nothing of stream() runs.
Abandon ==
    /\ pc \in Suspended
    /\ pc' = "abandoned"
    /\ UNCHANGED <<sidevars, paused, cfgvars, pagevars, sessvars, callvars,
                   request_parameters, total_results, n_requests,
                   stream_started, session_request_counter, idx, error,
                   out, pages>>

Next ==
    \/ StartStream
    \/ \E status \in Statuses : Attempt(status)
    \/ AttemptRaises
    \/ Sleep
    \/ \E body \in server_bodies : ParseResponse(body)
    \/ FormatOutput
    \/ YieldPage
    \/ ResumePage
    \/ YieldTweet
    \/ ResumeTweet
    \/ YieldIncludes
    \/ ResumeIncludes
    \/ YieldMeta
    \/ ResumeMeta
    \/ Paginate
    \/ Pause
    \/ EndStream
    \/ Abandon

Spec == Init /\ [][Next]_vars

\* stream() is called again on an instance whose generator has ended, by
\* exhaustion, by an exception or because the caller closed it: the new
\* generator runs init_session and execute_request on the attributes the
\* earlier run has left (lines 352-355).
StreamAgain ==
    /\ pc \in Ended \cup {"abandoned"}
    /\ n_sessions < MaxSessions
    /\ IF MakeSessionFails(bearer_token)
       THEN /\ pc' = "error"
            /\ error' = "KeyError"
            /\ open' = Closed(open, session)
            /\ UNCHANGED <<session, n_sessions, callvars>>
       ELSE /\ n_sessions' = n_sessions + 1
            /\ session' = n_sessions + 1
            /\ open' = Closed(open, session) \cup {n_sessions + 1}
            /\ NewFrame
            /\ pc' = "request"
            /\ error' = "none"
    /\ UNCHANGED <<sidevars, paused, cfgvars, pagevars, request_parameters,
                   total_results, n_requests, stream_started,
                   session_request_counter, idx, out, pages>>

\* An instance on which stream() is called until MaxSessions sessions have
\* been made: pages of one tweet with a token, a last page, an unparsable
\* body.
AgainInit ==
    /\ bearer_token \in BearerTokens
    /\ endpoint \in Endpoints
    /\ max_tweets \in 1..MaxTweetsBound
    /\ max_requests \in 1..MaxRequestsBound
    /\ output_format \in OutputFormats
    /\ InitState(MaxFailures,
                 {PagingBody, Unparsable,
                  [ok |-> TRUE, data |-> 1, inc |-> FALSE, meta |-> "plain"]})

AgainNext == Next \/ StreamAgain

AgainSpec == AgainInit /\ [][AgainNext]_vars

\* The executor under a server that may fail a call up to ExecFailures times
ExecInit ==
    /\ bearer_token = "token"
    /\ endpoint = "tweets/search/all"
    /\ max_tweets = 1
    /\ max_requests = 1
    /\ output_format \in OutputFormats
    /\ InitState(ExecFailures, Bodies)

ExecSpec == ExecInit /\ [][Next]_vars

\* A long stream: every page carries one tweet and a next token, and the
\* caps of the default max_tweets and of RefreshRequests requests.
RefreshInit ==
    /\ bearer_token = "token"
    /\ endpoint = "tweets/search/all"
    /\ max_tweets = default_max_tweets
    /\ max_requests = RefreshRequests
    /\ output_format \in OutputFormats
    /\ InitState(MaxFailures, {PagingBody})

RefreshSpec == RefreshInit /\ [][Next]_vars

\* The caller keeps pulling (or closes the generator), every HTTP call
\* returns or raises and every sleep ends.
LiveInit ==
    /\ bearer_token \in BearerTokens
    /\ endpoint = "tweets/search/all"
    /\ max_tweets \in 0..MaxTweetsBound
    /\ max_requests \in 1..MaxRequestsBound
    /\ output_format \in OutputFormats
    /\ InitState(MaxFailures, Bodies)

LiveSpec == LiveInit /\ [][Next]_vars /\ WF_vars(Next)

TypeOK ==
    /\ pc \in {"created", "request", "backoff", "returned", "top",
               "emit_page", "emit_tweet", "emit_includes", "emit_meta",
               "check", "pause", "done", "error", "abandoned",
               "indexed", "formatted", "sink_created", "partition", "open",
               "ndjson", "hand", "threads", "legacy_request",
               "legacy_sleep", "legacy_returned", "legacy_parse",
               "merge_called", "reducing", "merge_returned",
               "cli_called", "cli_parsed", "cli_merged", "pair"} \cup Suspended
    /\ total_results \in Nat
    /\ n_requests \in Nat
\* ------------------------------------------------ the response projector
\* formatted_output on one page, with the JSON of the page spelled out.  In
\* this part current_response, current_tweets, includes and meta hold JSON
\* values: Prim(x) is the string or number x, List(s) the list s, Dict(f) the object
\* f (a function on its keys), PyNone is None.  An id is a number.
Prim(x) == <<"p", x>>
List(s) == <<"l", s>>
Dict(f) == <<"d", f>>
PyNone == <<"n", <<>>>>
EmptyDict == Dict([k \in {} |-> PyNone])

\* The outcome of a call that raised the exception e
Raised(e) == <<"x", e>>
IsRaised(v) == v[1] = "x"

\* key in d, d[key], and d after d[key] = v
Has(d, key) == key \in DOMAIN d[2]
Get(d, key) == d[2][key]
Put(d, key, v) ==
    Dict([k \in DOMAIN d[2] \cup {key} |-> IF k = key THEN v ELSE d[2][k]])

\* utils.merge_dicts of two dictionaries: a copy of dict1 updated with dict2
merge_dicts(dict1, dict2) ==
    Dict([k \in DOMAIN dict1[2] \cup DOMAIN dict2[2] |->
          IF k \in DOMAIN dict2[2] THEN dict2[2][k] ELSE dict1[2][k]])

\* merge_dicts of two lookups (line 229)
MergeLookups(t1, t2) ==
    [k \in DOMAIN t1 \cup DOMAIN t2 |-> IF k \in DOMAIN t2 THEN t2[k]
                                        ELSE t1[k]]

DefaultGet_None(table, key) ==
    IF key \in DOMAIN table THEN table[key] ELSE PyNone

\* table[key] of a defaultdict(lambda: {})
DefaultGet(table, key) ==
    IF key \in DOMAIN table THEN table[key] ELSE EmptyDict

\* extract_includes (lines 215-225) on the includes object inc: the entities
\* of inc[expansion] by their _id, a later entity replacing an earlier one
\* of the same _id; the empty lookup when there is nothing to index.
ExtractFrom(inc, expansion, _id) ==
    IF inc # PyNone /\ Has(inc, expansion)
    THEN LET list == Get(inc, expansion)[2]
             key(i) == Get(list[i], _id)[2]
         IN  [id \in {key(i) : i \in DOMAIN list} |->
                 list[CHOOSE i \in DOMAIN list :
                         /\ key(i) = id
                         /\ \A j \in DOMAIN list : key(j) = id => j <= i]]
    ELSE [id \in {} |-> EmptyDict]

extract_includes(expansion, _id) == ExtractFrom(includes, expansion, _id)

\* The lookups expand_payload reads
Lookups ==
    [users |-> includes_users, tweets |-> includes_tweets,
     media |-> includes_media, polls |-> includes_polls,
     places |-> includes_places]

\* expand_payload, lines 256-280, one statement each; T holds the lookups
AttachAuthor(p, T) ==
    IF Has(p, "author_id")
    THEN Put(p, "author", DefaultGet(T.users, Get(p, "author_id")[2]))
    ELSE p

AttachReplyUser(p, T) ==
    IF Has(p, "in_reply_to_user_id")
    THEN Put(p, "in_reply_to_user",
             DefaultGet(T.users, Get(p, "in_reply_to_user_id")[2]))
    ELSE p

AttachMedia_Appends(p, T) ==
    IF Has(p, "media_keys")
    THEN LET keys == Get(p, "media_keys")[2]
             had == IF Has(p, "media") THEN Get(p, "media")[2] ELSE <<>>
         IN  Put(p, "media",
                 List(had \o [i \in DOMAIN keys |->
                                DefaultGet(T.media, keys[i][2])]))
    ELSE p

AttachMedia_Reversed(p, T) ==
    IF Has(p, "media_keys")
    THEN LET keys == Get(p, "media_keys")[2]
         IN  Put(p, "media",
                 List([i \in DOMAIN keys |->
                       DefaultGet(T.media, keys[Len(keys) + 1 - i][2])]))
    ELSE p

AttachMedia(p, T) ==
    IF Has(p, "media_keys")
    THEN LET keys == Get(p, "media_keys")[2]
         IN  Put(p, "media",
                 List([i \in DOMAIN keys |-> DefaultGet(T.media, keys[i][2])]))
    ELSE p

\* payload["poll_ids"][-1] raises IndexError on an empty list
AttachPoll(p, T) ==
    IF IsRaised(p) \/ ~Has(p, "poll_ids") THEN p
    ELSE LET ids == Get(p, "poll_ids")[2]
         IN  IF Len(ids) = 0 THEN Raised("IndexError")
             ELSE Put(p, "poll", DefaultGet(T.polls, ids[Len(ids)][2]))

MergePlace(p, T) ==
    IF IsRaised(p) \/ ~Has(p, "geo") THEN p
    ELSE IF ~Has(Get(p, "geo"), "place_id") THEN p
    ELSE Put(p, "geo",
             merge_dicts(Get(p, "geo"),
                         DefaultGet(T.places,
                                    Get(Get(p, "geo"), "place_id")[2])))

\* referenced_user['username'] raises KeyError when the key is missing
MergeMentions(p, T) ==
    IF IsRaised(p) \/ ~Has(p, "mentions") THEN p
    ELSE LET ms == Get(p, "mentions")[2]
         IN  IF \E i \in DOMAIN ms : ~Has(ms[i], "username")
             THEN Raised("KeyError")
             ELSE Put(p, "mentions",
                      List([i \in DOMAIN ms |->
                            merge_dicts(ms[i],
                                DefaultGet(T.users,
                                           Get(ms[i], "username")[2]))]))

\* referenced_tweet['id'] raises KeyError when the key is missing
MergeReferenced(p, T) ==
    IF IsRaised(p) \/ ~Has(p, "referenced_tweets") THEN p
    ELSE LET rs == Get(p, "referenced_tweets")[2]
         IN  IF \E i \in DOMAIN rs : ~Has(rs[i], "id")
             THEN Raised("KeyError")
             ELSE Put(p, "referenced_tweets",
                      List([i \in DOMAIN rs |->
                            merge_dicts(rs[i],
                                DefaultGet(T.tweets, Get(rs[i], "id")[2]))]))

AttachPinned(p, T) ==
    IF IsRaised(p) \/ ~Has(p, "pinned_tweet_id") THEN p
    ELSE Put(p, "pinned_tweet",
             DefaultGet(T.tweets, Get(p, "pinned_tweet_id")[2]))

\* expand_payload (lines 239-282) with the lookups T: the value the payload
\* has when the call returns, or Raised.  None is neither a primitive, a
\* list nor a dict, and the test of line 256 raises TypeError on it.
RECURSIVE Expand(_, _)
Expand(payload, T) ==
    IF payload[1] = "p" THEN payload
    ELSE IF payload[1] = "n" THEN Raised("TypeError")
    ELSE IF payload[1] = "l"
    THEN LET items == [i \in DOMAIN payload[2] |-> Expand(payload[2][i], T)]
         IN  IF \E i \in DOMAIN items : IsRaised(items[i])
             THEN items[CHOOSE i \in DOMAIN items : IsRaised(items[i])]
             ELSE List(items)
    ELSE LET kids == [k \in DOMAIN payload[2] |-> Expand(payload[2][k], T)]
         IN  IF \E k \in DOMAIN kids : IsRaised(kids[k])
             THEN kids[CHOOSE k \in DOMAIN kids : IsRaised(kids[k])]
             ELSE AttachPinned(MergeReferenced(MergeMentions(MergePlace(
                  AttachPoll(AttachMedia(AttachReplyUser(AttachAuthor(
                      Dict(kids), T), T), T), T), T), T), T), T)

expand_payload(payload) == Expand(payload, Lookups)

\* ---- the pages drawn for the projector
\* An entity with id 1 of every kind is in the includes of a page that has
\* entities; nothing with id 2 ever is.  The username of user i is 10 + i.
TargetIds == {1, 2}
KeyLists == UNION {[1..n -> TargetIds] : n \in 0..MaxMediaKeys}

\* What a tweet refers to: for each reference key 0 (the key is absent), a
\* target id, or 3: an empty poll_ids list, a geo object without place_id,
\* a mention without username, a referenced tweet without id.
Shapes ==
    {s \in [author : 0..2, reply : 0..2,
            media : {None} \cup {Some(ks) : ks \in KeyLists},
            poll : 0..3, place : 0..3, mention : 0..3, ref : 0..3,
            pinned : 0..2] :
        Cardinality({f \in {"author", "reply", "poll", "place", "mention",
                            "ref", "pinned"} : s[f] # 0})
            + (IF s.media = None THEN 0 ELSE 1) <= MaxRefKinds}

\* No reference of the shape is ill-formed
WellFormed(s) == s.poll # 3 /\ s.mention # 3 /\ s.ref # 3

Only(cond, key, v) == IF cond THEN Dict([k \in {key} |-> v]) ELSE EmptyDict

\* The tweet of a shape, laid out as the API lays it out
MakeItem(s) ==
    LET attachments ==
            merge_dicts(
                Only(s.media # None, "media_keys",
                     List([i \in DOMAIN s.media[1] |-> Prim(s.media[1][i])])),
                Only(s.poll # 0, "poll_ids",
                     List(IF s.poll = 3 THEN <<>> ELSE <<Prim(s.poll)>>)))
        geo == merge_dicts(Dict([type |-> Prim(0)]),
                           Only(s.place \in TargetIds, "place_id",
                                Prim(s.place)))
        mention == merge_dicts(Dict([start |-> Prim(0)]),
                               Only(s.mention \in TargetIds, "username",
                                    Prim(10 + s.mention)))
        referenced == merge_dicts(Dict([type |-> Prim(0)]),
                                  Only(s.ref \in TargetIds, "id", Prim(s.ref)))
    IN  merge_dicts(merge_dicts(merge_dicts(merge_dicts(
        merge_dicts(merge_dicts(merge_dicts(
            Dict([id |-> Prim(9), text |-> Prim(0)]),
            Only(s.author # 0, "author_id", Prim(s.author))),
            Only(s.reply # 0, "in_reply_to_user_id", Prim(s.reply))),
            Only(attachments # EmptyDict, "attachments", attachments)),
            Only(s.place # 0, "geo", geo)),
            Only(s.mention # 0, "entities",
                 Dict([mentions |-> List(<<mention>>)]))),
            Only(s.ref # 0, "referenced_tweets", List(<<referenced>>))),
            Only(s.pinned # 0, "pinned_tweet_id", Prim(s.pinned)))

\* The includes of a page: absent, an empty object, entities that refer to
\* nothing ("flat"), a tweet with an author and a user with a pinned
\* tweet ("refs"), or the flat entities and a second user, of id 2, whose
\* username is the id of the first ("clash").
IncludesKinds == {"none", "empty", "flat", "refs", "clash"}

User1 == Dict([id |-> Prim(1), username |-> Prim(11), name |-> Prim(0)])
User2 == Dict([id |-> Prim(2), username |-> Prim(1), name |-> Prim(0)])
Tweet1 == Dict([id |-> Prim(1), text |-> Prim(0)])
Media1 == Dict([media_key |-> Prim(1), type |-> Prim(0)])
Poll1 == Dict([id |-> Prim(1), options |-> List(<<>>)])
Place1 == Dict([id |-> Prim(1), full_name |-> Prim(0)])

MakeIncludes(kind) ==
    IF kind = "none" THEN PyNone
    ELSE IF kind = "empty" THEN EmptyDict
    ELSE Dict([users |-> List(IF kind = "refs"
                         THEN <<Put(User1, "pinned_tweet_id", Prim(1))>>
                         ELSE IF kind = "clash" THEN <<User1, User2>>
                         ELSE <<User1>>),
            tweets |-> List(<<IF kind = "refs"
                           THEN Put(Tweet1, "author_id", Prim(1))
                           ELSE Tweet1>>),
            media |-> List(<<Media1>>),
            polls |-> List(<<Poll1>>),
            places |-> List(<<Place1>>)])

\* The parsed body: "data", "meta" and, when there is one, "includes"
ResponseOf(data, inc, m) ==
    merge_dicts(Dict([data |-> List(data), meta |-> m]),
                Only(inc # PyNone, "includes", inc))

\* The state when execute_request has returned the first page
ProjectInit ==
    /\ bearer_token = "token"
    /\ endpoint \in {"tweets/search/recent", "tweets/counts/recent"}
    /\ max_tweets = default_max_tweets
    /\ max_requests = 1
    /\ output_format \in OutputFormats
    /\ max_failures = 0
    /\ server_bodies = {}
    /\ \E s \in Shapes, kind \in IncludesKinds :
          LET m == Dict([result_count |-> Prim(1)])
          IN  /\ current_tweets = Some(<<MakeItem(s)>>)
              /\ includes = MakeIncludes(kind)
              /\ meta = m
              /\ current_response =
                     ResponseOf(<<MakeItem(s)>>, MakeIncludes(kind), m)
              /\ received = [shape |-> s, kind |-> kind,
                             body |-> ResponseOf(<<MakeItem(s)>>,
                                                 MakeIncludes(kind), m)]
    /\ next_token = 0
    /\ request_parameters = [query |-> 1, next_token |-> 0]
    /\ total_results = 0
    /\ n_requests = 1
    /\ stream_started = TRUE
    /\ session = 1
    /\ n_sessions = 1
    /\ open = {1}
    /\ session_request_counter = 1
    /\ tries = 0
    /\ total_sleep_seconds = 0
    /\ sleep_seconds = 0
    /\ resp_status = 0
    /\ attempts = 0
    /\ sleeps = 0
    /\ failed = 0
    /\ func_raised = FALSE
    /\ slept = 0
    /\ rate_slept = 0
    /\ paused = 0
    /\ pc = "top"
    /\ idx = 0
    /\ error = "none"
    /\ out = <<>>
    /\ pages = <<>>
    /\ includes_users = None
    /\ includes_tweets = None
    /\ includes_media = None
    /\ includes_polls = None
    /\ includes_places = None
    /\ NoSink
    /\ NoThreads
    /\ NoMerge
    /\ NoCli
    /\ NoPair

streamvars == <<cfgvars, sessvars, callvars, request_parameters, n_requests,
                stream_started, session_request_counter, next_token, pages,
                paused, received, sinkvars, threadvars, auxvars>>

\* formatted_output, lines 229-237: the lookups are built
IndexIncludes ==
    /\ pc = "top"
    /\ includes_users' = MergeLookups(extract_includes("users", "id"),
                                      extract_includes("users", "username"))
    /\ includes_tweets' = extract_includes("tweets", "id")
    /\ includes_media' = extract_includes("media", "media_key")
    /\ includes_polls' = extract_includes("polls", "id")
    /\ includes_places' = extract_includes("places", "id")
    /\ pc' = "indexed"
    /\ UNCHANGED <<streamvars, current_response, current_tweets, includes,
                   meta, total_results, idx, error, out>>

\* The loop of lines 287-288 from the i-th included tweet on: each tweet is
\* expanded where it is, in the list of includes, and entered in the lookup.
RECURSIVE ExpandTweets(_, _, _)
ExpandTweets(i, list, T) ==
    IF i > Len(list)
    THEN [raised |-> "none", list |-> list, tweets |-> T.tweets]
    ELSE LET e == Expand(list[i], T)
             id == Get(list[i], "id")[2]
         IN  IF IsRaised(e)
             THEN [raised |-> e[2], list |-> list, tweets |-> T.tweets]
             ELSE ExpandTweets(i + 1, [list EXCEPT ![i] = e],
                      [T EXCEPT !.tweets =
                          [k \in DOMAIN T.tweets |->
                              IF k = id THEN e ELSE T.tweets[k]]])

\* formatted_output, lines 286-288: the included tweets are expanded.  The
\* dictionaries expand_payload writes into are those of self.includes,
\* which current_response holds as well.
ExpandIncluded ==
    /\ pc = "indexed"
    /\ IF SearchType(endpoint) = "tweets" /\ includes # PyNone
          /\ Has(includes, "tweets")
       THEN LET r == ExpandTweets(1, Get(includes, "tweets")[2], Lookups)
            IN  /\ includes_tweets' = r.tweets
                /\ includes' = Put(includes, "tweets", List(r.list))
                /\ current_response' =
                       Put(current_response, "includes", includes')
                /\ IF r.raised # "none"
                   THEN pc' = "error" /\ error' = r.raised
                   ELSE /\ pc' = IF output_format = "r" THEN "emit_page"
                                 ELSE "emit_tweet"
                        /\ UNCHANGED error
       ELSE /\ pc' = IF output_format = "r" THEN "emit_page"
                     ELSE "emit_tweet"
            /\ UNCHANGED <<includes_tweets, includes, current_response,
                           error>>
    /\ idx' = 1
    /\ UNCHANGED <<streamvars, includes_users, includes_media,
                   includes_polls, includes_places, current_tweets, meta,
                   total_results, out>>

\* output_response_format (lines 295-302)
EmitResponse ==
    /\ pc = "emit_page"
    /\ IF SearchType(endpoint) = "tweets"
          /\ CapReached(total_results, max_tweets)
       THEN UNCHANGED <<out, total_results>>
       ELSE /\ out' = Append(out, current_response)
            /\ total_results' =
                   IF SearchType(endpoint) = "tweets"
                   THEN total_results + Get(meta, "result_count")[2]
                   ELSE total_results
    /\ pc' = "formatted"
    /\ UNCHANGED <<streamvars, indexvars, current_response, current_tweets,
                   includes, meta, idx, error>>

\* One step of the loop of output_atomic_format (lines 308-312): the tweet
\* is expanded where it is, in current_tweets and so in current_response.
EmitAtomic ==
    /\ pc = "emit_tweet" /\ output_format = "a"
    /\ IF idx > Len(current_tweets[1])
          \/ CapReached(total_results, max_tweets)
       THEN /\ pc' = "formatted"
            /\ UNCHANGED <<out, total_results, idx, current_tweets,
                           current_response, error>>
       ELSE LET e == expand_payload(current_tweets[1][idx])
            IN  IF IsRaised(e)
                THEN /\ pc' = "error"
                     /\ error' = e[2]
                     /\ UNCHANGED <<out, total_results, idx, current_tweets,
                                    current_response>>
                ELSE /\ out' = Append(out, e)
                     /\ current_tweets' =
                            Some([current_tweets[1] EXCEPT ![idx] = e])
                     /\ current_response' =
                            Put(current_response, "data",
                                List(current_tweets'[1]))
                     /\ total_results' = total_results + 1
                     /\ idx' = idx + 1
                     /\ UNCHANGED <<pc, error>>
    /\ UNCHANGED <<streamvars, indexvars, includes, meta>>

\* One step of the loop of output_message_stream_format (lines 320-324)
EmitMessage ==
    /\ pc = "emit_tweet" /\ output_format = "m"
    /\ IF idx > Len(current_tweets[1])
          \/ CapReached(total_results, max_tweets)
       THEN /\ pc' = "emit_includes"
            /\ UNCHANGED <<out, total_results, idx>>
       ELSE /\ out' = Append(out, current_tweets[1][idx])
            /\ total_results' = total_results + 1
            /\ idx' = idx + 1
            /\ UNCHANGED pc
    /\ UNCHANGED <<streamvars, indexvars, current_response, current_tweets,
                   includes, meta, error>>

\* output_message_stream_format, lines 327-328
EmitIncludes ==
    /\ pc = "emit_includes"
    /\ out' = IF includes # PyNone THEN Append(out, includes) ELSE out
    /\ pc' = "emit_meta"
    /\ UNCHANGED <<streamvars, indexvars, current_response, current_tweets,
                   includes, meta, total_results, idx, error>>

\* output_message_stream_format, lines 331-332
EmitMeta ==
    /\ pc = "emit_meta"
    /\ out' = IF meta # PyNone THEN Append(out, meta) ELSE out
    /\ pc' = "formatted"
    /\ UNCHANGED <<streamvars, indexvars, current_response, current_tweets,
                   includes, meta, total_results, idx, error>>

ProjectNext ==
    \/ IndexIncludes
    \/ ExpandIncluded
    \/ EmitResponse
    \/ EmitAtomic
    \/ EmitMessage
    \/ EmitIncludes
    \/ EmitMeta

ProjectSpec == ProjectInit /\ [][ProjectNext]_vars

\* ------------------------------------------------------- the output sink
\* utils.write_result_stream around a stream that yields the items 1..k and
\* then ends or raises.  A file is named by the second in its name; 0 names
\* "<prefix>.json", the file without time stamp.
SinkInit ==
    /\ bearer_token = "token"
    /\ endpoint = "tweets/search/recent"
    /\ max_tweets = default_max_tweets
    /\ max_requests = 1
    /\ output_format = "a"
    /\ NewInstance(0, {})
    /\ NoProjection
    /\ NoThreads
    /\ NoMerge
    /\ NoCli
    /\ NoPair
    /\ pc = "sink_created"
    /\ error = "none"
    /\ out = <<>>
    /\ results_per_file \in 0..MaxPerFile
    /\ \E k \in 0..MaxStreamItems : source = [i \in 1..k |-> i]
    /\ source_raises \in BOOLEAN
    /\ chunk = <<>>
    /\ files = <<>>
    /\ filename = 0
    /\ clock = 1
    /\ produced = <<>>
    /\ written = <<>>
    /\ opened = <<>>

restvars == <<cfgvars, pagevars, sessvars, callvars, indexvars, received,
              threadvars, auxvars, request_parameters, total_results, n_requests, stream_started,
              session_request_counter, idx, pages, paused>>

\* codecs.open(filename, "wb"): the file exists and is empty
Truncated(fs, name) ==
    [f \in DOMAIN fs \cup {name} |-> IF f = name THEN <<>> ELSE fs[f]]

\* write_result_stream, line 125: "if results_per_file"
Chunking(n) == n # 0

\* First pull on write_result_stream (lines 116-128 and 136-140): the
\* chunked branch starts to partition; the other branch enters write_ndjson,
\* which opens "<prefix>.json".
StartSink ==
    /\ pc = "sink_created"
    /\ IF Chunking(results_per_file)
       THEN /\ pc' = "partition"
            /\ UNCHANGED <<files, filename, opened>>
       ELSE /\ filename' = 0
            /\ files' = Truncated(files, 0)
            /\ opened' = Append(opened, 0)
            /\ pc' = "ndjson"
    /\ UNCHANGED <<restvars, results_per_file, source, source_raises, chunk,
                   clock, produced, written, out, error>>

\* partition (zip_longest over results_per_file references to one iterator)
\* fills the next place of its tuple: with the next item of the stream; or
\* the stream raises and the tuple is lost; or the stream has ended, and the
\* places left are padded with None, which line 130 filters out, unless the
\* tuple is still empty, which ends the loop of line 129.
PullItem ==
    /\ pc = "partition"
    /\ IF source # <<>>
       THEN /\ chunk' = Append(chunk, Head(source))
            /\ source' = Tail(source)
            /\ produced' = Append(produced, Head(source))
            /\ pc' = IF Len(chunk) + 1 = results_per_file THEN "open"
                     ELSE "partition"
            /\ UNCHANGED error
       ELSE IF source_raises
       THEN /\ chunk' = <<>>
            /\ pc' = "error"
            /\ error' = "HTTPError"
            /\ UNCHANGED <<source, produced>>
       ELSE /\ pc' = IF chunk = <<>> THEN "done" ELSE "open"
            /\ UNCHANGED <<chunk, source, produced, error>>
    /\ UNCHANGED <<restvars, results_per_file, source_raises, files,
                   filename, clock, written, opened, out>>

\* Lines 131-134 and the first step of write_ndjson (lines 92-94): the file
\* is named after the current second and opened for writing.
OpenFile ==
    /\ pc = "open"
    /\ filename' = clock
    /\ files' = Truncated(files, clock)
    /\ opened' = Append(opened, clock)
    /\ pc' = "ndjson"
    /\ UNCHANGED <<restvars, results_per_file, source, source_raises, chunk,
                   clock, produced, written, out, error>>

\* write_ndjson, lines 95-96: the next item of data_iterable is written.
\* data_iterable is the filtered tuple, or the stream itself.
WriteItem ==
    /\ pc = "ndjson"
    /\ IF Chunking(results_per_file)
       THEN IF chunk # <<>>
            THEN /\ files' = [files EXCEPT
                                 ![filename] = Append(@, Head(chunk))]
                 /\ written' = Append(written, Head(chunk))
                 /\ pc' = "hand"
                 /\ UNCHANGED <<chunk, source, produced, error>>
            ELSE /\ pc' = "partition"
                 /\ UNCHANGED <<files, written, chunk, source, produced,
                                error>>
       ELSE IF source # <<>>
            THEN /\ chunk' = <<Head(source)>>
                 /\ source' = Tail(source)
                 /\ produced' = Append(produced, Head(source))
                 /\ files' = [files EXCEPT
                                 ![filename] = Append(@, Head(source))]
                 /\ written' = Append(written, Head(source))
                 /\ pc' = "hand"
                 /\ UNCHANGED error
            ELSE /\ pc' = IF source_raises THEN "error" ELSE "done"
                 /\ error' = IF source_raises THEN "HTTPError" ELSE error
                 /\ UNCHANGED <<files, written, chunk, source, produced>>
    /\ UNCHANGED <<restvars, results_per_file, source_raises, filename,
                   clock, opened, out>>

\* write_ndjson, line 97: the item is yielded to the caller
HandItem ==
    /\ pc = "hand"
    /\ out' = Append(out, Head(chunk))
    /\ chunk' = Tail(chunk)
    /\ pc' = "ndjson"
    /\ UNCHANGED <<restvars, results_per_file, source, source_raises, files,
                   filename, clock, produced, written, opened, error>>

\* A second goes by
Tick ==
    /\ pc \in {"sink_created", "partition", "open", "ndjson", "hand"}
    /\ clock < MaxClock
    /\ clock' = clock + 1
    /\ UNCHANGED <<restvars, results_per_file, source, source_raises, chunk,
                   files, filename, produced, written, opened, out, pc,
                   error>>

SinkNext ==
    \/ StartSink
    \/ PullItem
    \/ OpenFile
    \/ WriteItem
    \/ HandItem
    \/ Tick

SinkSpec == SinkInit /\ [][SinkNext]_vars

\* ------------------------------------------- the class request counter
\* Threads of one process, each paging through its own ResultStream.  Of
\* execute_request only the lines that count matter here: n_requests of
\* the instance (line 418) and the class attribute session_request_counter
\* (line 419), whose "+= 1" reads the attribute, adds, and writes it back.
Threads == 1..NumThreads

\* One to NumThreads threads are started; each makes up to
\* MaxThreadRequests requests.
CounterInit ==
    /\ bearer_token = "token"
    /\ endpoint = "tweets/search/recent"
    /\ max_tweets = default_max_tweets
    /\ max_requests = MaxThreadRequests
    /\ output_format = "a"
    /\ NewInstance(0, {})
    /\ NoProjection
    /\ NoSink
    /\ NoMerge
    /\ NoCli
    /\ NoPair
    /\ pc = "threads"
    /\ error = "none"
    /\ out = <<>>
    /\ \E active \in 1..NumThreads :
          thread_pc = [t \in Threads |-> IF t <= active THEN "request"
                                         ELSE "idle"]
    /\ thread_n_requests = [t \in Threads |-> 0]
    /\ thread_loaded = [t \in Threads |-> 0]

unsharedvars == <<cfgvars, pagevars, sessvars, callvars, indexvars, received,
                  sinkvars, auxvars, request_parameters, total_results, n_requests,
                  stream_started, idx, pages, paused, pc, out, error>>

\* Lines 415-418 in thread t: request() returns and self.n_requests += 1
CompleteRequest(t) ==
    /\ thread_pc[t] = "request"
    /\ thread_n_requests[t] < MaxThreadRequests
    /\ thread_n_requests' = [thread_n_requests EXCEPT ![t] = @ + 1]
    /\ thread_pc' = [thread_pc EXCEPT ![t] = "load"]
    /\ UNCHANGED <<unsharedvars, session_request_counter, thread_loaded>>

\* Line 419, first half: ResultStream.session_request_counter is read
LoadCounter(t) ==
    /\ thread_pc[t] = "load"
    /\ thread_loaded' = [thread_loaded EXCEPT ![t] = session_request_counter]
    /\ thread_pc' = [thread_pc EXCEPT ![t] = "store"]
    /\ UNCHANGED <<unsharedvars, session_request_counter, thread_n_requests>>

\* Line 419, second half: the value read, plus one, is written back
StoreCounter(t) ==
    /\ thread_pc[t] = "store"
    /\ session_request_counter' = thread_loaded[t] + 1
    /\ thread_pc' = [thread_pc EXCEPT ![t] = "request"]
    /\ UNCHANGED <<unsharedvars, thread_n_requests, thread_loaded>>

CounterNext ==
    \E t \in Threads :
        \/ CompleteRequest(t)
        \/ LoadCounter(t)
        \/ StoreCounter(t)

CounterSpec == CounterInit /\ [][CounterNext]_vars

\* ------------------------------------------------ the legacy executor
\* twittersearchapi.result_stream: retry.retried_func around request, and
\* the execute_request that calls it.  tries, attempts, resp_status, sleeps,
\* slept and func_raised are the locals and the history of the call in
\* progress, n_requests the attribute of the legacy ResultStream.

\* The statuses the server may answer with
LegacyStatuses == {200, 404, 429, 500, 504}

\* The keys of utils.GNIP_RESP_CODES
GnipCodes == {200, 400, 401, 404, 422, 429, 500, 502, 503}

LegacyInit ==
    /\ bearer_token = "token"
    /\ endpoint = "tweets/search/recent"
    /\ max_tweets = default_max_tweets
    /\ max_requests = MaxLegacyCalls
    /\ output_format = "a"
    /\ NewInstance(0, {})
    /\ NoProjection
    /\ NoSink
    /\ NoThreads
    /\ NoMerge
    /\ NoCli
    /\ NoPair
    /\ pc = "legacy_returned"
    /\ error = "none"
    /\ out = <<>>

legacyrest == <<cfgvars, pagevars, sidevars, request_parameters,
                total_results, stream_started, session_request_counter, idx,
                out, pages, paused, total_sleep_seconds, sleep_seconds,
                failed, rate_slept>>

\* execute_request, lines 182-187: the refresh of the session and the call
\* of request with the locals of retried_func (lines 43-44); before the
\* first call stream() has run init_session (line 138)
LegacyExecute ==
    /\ pc = "legacy_returned"
    /\ n_requests < MaxLegacyCalls
    /\ IF session = 0 \/ RefreshNeeded(n_requests)
       THEN /\ n_sessions' = n_sessions + 1
            /\ session' = n_sessions + 1
            /\ open' = (open \ {session}) \cup {n_sessions + 1}
       ELSE UNCHANGED sessvars
    /\ tries' = 0
    /\ attempts' = 0
    /\ sleeps' = 0
    /\ slept' = 0
    /\ resp_status' = 0
    /\ func_raised' = FALSE
    /\ pc' = "legacy_request"
    /\ UNCHANGED <<legacyrest, n_requests, error>>

\* One iteration of the while loop (lines 45-64) in which func returns a
\* response with the given status, and lines 66-73 when the loop is left
LegacyAttempt(status) ==
    /\ pc = "legacy_request"
    /\ attempts' = attempts + 1
    /\ resp_status' = status
    /\ IF status # 200 /\ tries < MAX_TRIES
       THEN /\ tries' = tries + 1
            /\ pc' = "legacy_sleep"
            /\ UNCHANGED error
       ELSE /\ UNCHANGED tries
            /\ IF status # 200
               THEN /\ pc' = "error"
                    /\ error' = IF status \in GnipCodes THEN "HTTPError"
                                ELSE "KeyError"
               ELSE /\ pc' = "legacy_parse"
                    /\ UNCHANGED error
    /\ UNCHANGED <<legacyrest, sessvars, n_requests, sleeps, slept,
                   func_raised>>

\* func raises ConnectionError or HTTPError: lines 49-55 raise it again
LegacyAttemptRaises ==
    /\ pc = "legacy_request"
    /\ attempts' = attempts + 1
    /\ func_raised' = TRUE
    /\ pc' = "error"
    /\ error' = "ConnectionError"
    /\ UNCHANGED <<legacyrest, sessvars, n_requests, tries, resp_status,
                   sleeps, slept>>

\* time.sleep(1); continue  (lines 60-61)
LegacySleep ==
    /\ pc = "legacy_sleep"
    /\ sleeps' = sleeps + 1
    /\ slept' = slept + legacy_sleep_seconds
    /\ pc' = "legacy_request"
    /\ UNCHANGED <<legacyrest, sessvars, n_requests, tries, attempts,
                   resp_status, func_raised, error>>

\* execute_request, line 188, once request has returned
LegacyCount ==
    /\ pc = "legacy_parse"
    /\ n_requests' = n_requests + 1
    /\ pc' = "legacy_returned"
    /\ UNCHANGED <<legacyrest, sessvars, tries, attempts, resp_status,
                   sleeps, slept, func_raised, error>>

LegacyNext ==
    \/ LegacyExecute
    \/ \E status \in LegacyStatuses : LegacyAttempt(status)
    \/ LegacyAttemptRaises
    \/ LegacySleep
    \/ LegacyCount

LegacySpec == LegacyInit /\ [][LegacyNext]_vars

\* ------------------------------------------------------- merge_dicts
\* utils.merge_dicts(*dicts) with the dictionaries as objects: an argument
\* is a reference into heap, and a dictionary is a function on its keys.
MergeKeys == {"a", "b"}
MergeValues == {1, 2}
DictsOver == UNION {[K -> MergeValues] : K \in SUBSET MergeKeys}

\* No ResultStream is at work: the attributes of an instance nobody runs
NoStream ==
    /\ bearer_token = "token"
    /\ endpoint = "tweets/search/recent"
    /\ max_tweets = default_max_tweets
    /\ max_requests = 1
    /\ output_format = "r"
    /\ NewInstance(0, {})
    /\ NoProjection
    /\ NoSink
    /\ NoThreads
    /\ error = "none"
    /\ out = <<>>

\* merge_dicts is called with 0..MaxDicts references to the 1..MaxObjects
\* dictionaries in memory; one dictionary may be passed more than once
MergeInit ==
    /\ NoStream
    /\ NoCli
    /\ NoPair
    /\ \E n \in 1..MaxObjects :
          /\ heap \in [1..n -> DictsOver]
          /\ dicts \in UNION {[1..m -> 1..n] : m \in 0..MaxDicts}
    /\ passed = heap
    /\ reduced = 0
    /\ acc = 0
    /\ merged = 0
    /\ pc = "merge_called"

instancevars == <<cfgvars, pagevars, sessvars, callvars, indexvars, received,
                  sinkvars, threadvars, request_parameters, total_results,
                  n_requests, stream_started, session_request_counter, idx,
                  out, pages, paused>>

\* dict1.copy(): a new object with the content of dict1
CopyOf(h, dict1) == [heap |-> Append(h, h[dict1]), ref |-> Len(h) + 1]

\* d.update(dict2) on the content d
Updated(d, dict2) ==
    [k \in DOMAIN d \cup DOMAIN dict2 |->
        IF k \in DOMAIN dict2 THEN dict2[k] ELSE d[k]]

\* reduce (line 84) takes the first argument as its accumulator; without
\* an argument it raises TypeError
ReduceStart ==
    /\ pc = "merge_called"
    /\ IF Len(dicts) = 0
       THEN /\ pc' = "error"
            /\ error' = "TypeError"
            /\ UNCHANGED <<acc, reduced>>
       ELSE /\ acc' = dicts[1]
            /\ reduced' = 1
            /\ pc' = "reducing"
            /\ UNCHANGED error
    /\ UNCHANGED <<instancevars, clivars, pairvars, heap, passed, dicts,
                   merged>>

\* one call of _merge_dicts (lines 79-82) by reduce: the accumulator is
\* copied, the copy is updated with the next argument and becomes the
\* accumulator
ReduceStep ==
    /\ pc = "reducing"
    /\ reduced < Len(dicts)
    /\ LET copy == CopyOf(heap, acc)
           dict2 == dicts[reduced + 1]
       IN  /\ heap' = [copy.heap EXCEPT
                          ![copy.ref] = Updated(@, copy.heap[dict2])]
           /\ acc' = copy.ref
    /\ reduced' = reduced + 1
    /\ UNCHANGED <<instancevars, clivars, pairvars, passed, dicts, merged,
                   pc, error>>

\* reduce returns its accumulator (line 84)
ReduceReturn ==
    /\ pc = "reducing"
    /\ reduced = Len(dicts)
    /\ merged' = acc
    /\ pc' = "merge_returned"
    /\ UNCHANGED <<instancevars, clivars, pairvars, heap, passed, dicts,
                   reduced, acc, error>>

MergeNext ==
    \/ ReduceStart
    \/ ReduceStep
    \/ ReduceReturn

MergeSpec == MergeInit /\ [][MergeNext]_vars

\* ------------------------------------------------ the command-line tools
\* main of scripts/search_tweets.py and of tools/twitter_search.py up to the
\* merged configuration.  A value is "cfg" (written in the config file),
\* "cli" (given on the command line), "cred" (from the credentials), the
\* default of an option, or "None".
Tools == {"search_tweets", "twitter_search"}

\* Options of both parsers, and the keys a config file may set
CliOptions == {"filename_prefix", "max_tweets", "results_per_file",
               "print_stream"}
ConfigKeys == CliOptions \cup {"endpoint"}

\* The default argparse stores for an option that is not given
ArgDefault(t, option) ==
    IF option = "print_stream" THEN "True"
    ELSE IF t = "twitter_search" /\ option = "max_tweets" THEN "500"
    ELSE IF t = "twitter_search" /\ option = "results_per_file" THEN "0"
    ELSE "None"

\* dict_filter: the items of x whose value is not None
dict_filter(x) == [k \in {j \in DOMAIN x : x[j] # "None"} |-> x[k]]

\* merge_dicts of a tuple of one or more dictionaries
RECURSIVE MergeAll(_)
MergeAll(ds) ==
    IF Len(ds) = 1 THEN ds[1]
    ELSE Updated(MergeAll(SubSeq(ds, 1, Len(ds) - 1)), ds[Len(ds)])

\* A tool is started with some options on its command line; its config
\* file sets some keys, to a value or to null; search_tweets loads
\* credentials, which may hold an endpoint
CliInit ==
    /\ NoStream
    /\ NoMerge
    /\ NoPair
    /\ tool \in Tools
    /\ argv \in SUBSET CliOptions
    /\ configfile_dict \in
           UNION {[K -> {"cfg", "None"}] : K \in SUBSET ConfigKeys}
    /\ creds_dict \in
           IF tool = "search_tweets"
           THEN {[k \in {"endpoint"} |-> v] : v \in {"cred", "None"}}
           ELSE {<<>>}
    /\ args_dict = <<>>
    /\ config_dict = <<>>
    /\ pc = "cli_called"

\* vars(parse_cmd_args().parse_args()): every option of the parser, with
\* the value given or its default
ParseArgs ==
    /\ pc = "cli_called"
    /\ args_dict' = [k \in CliOptions |->
                        IF k \in argv THEN "cli" ELSE ArgDefault(tool, k)]
    /\ pc' = "cli_parsed"
    /\ UNCHANGED <<instancevars, mergevars, pairvars, tool, argv,
                   configfile_dict, creds_dict, config_dict, error>>

\* main: config_dict (search_tweets.py lines 212-216, twitter_search.py
\* lines 147-149)
MergeConfig ==
    /\ pc = "cli_parsed"
    /\ config_dict' =
           IF tool = "search_tweets"
           THEN MergeAll(<<dict_filter(configfile_dict),
                           dict_filter(creds_dict), dict_filter(args_dict)>>)
           ELSE MergeAll(<<dict_filter(configfile_dict),
                           dict_filter(args_dict)>>)
    /\ pc' = "cli_merged"
    /\ UNCHANGED <<instancevars, mergevars, pairvars, tool, argv,
                   configfile_dict, creds_dict, args_dict, error>>

CliNext ==
    \/ ParseArgs
    \/ MergeConfig

CliSpec == CliInit /\ [][CliNext]_vars

\* ------------------------------------------------- two instances at once
\* Two ResultStream instances of one process, each pulled to its end by a
\* thread of its own, in format a and with the same arguments.  The
\* process holds the sessions made (n_sessions, open) and the class
\* attribute session_request_counter; all else is an attribute of one
\* instance.  The k-th request of instance i is answered with scripts[i][k],
\* at once and with status 200.
Instances == {1, 2}

PairBodies == {b \in Bodies : b.ok /\ ~b.inc /\ b.meta # "none" /\ b.data # 0}

FreshSession_Singleton(made) == 1

\* make_session, line 41: requests.Session() is a new object
FreshSession(made) == made + 1

\* ResultStream.__init__ (lines 173-211) and the histories of an instance:
\* the next_token of each request issued, the sessions it requested on and
\* those it closed, and whether it requested on a session not open
NewPairInstance ==
    [pc |-> "created", session |-> 0, n_requests |-> 0, total_results |-> 0,
     next_token |-> 0, request_token |-> 0, current_tweets |-> None,
     idx |-> 0, out |-> <<>>, reqs |-> <<>>, used |-> {}, closed |-> {},
     on_closed |-> FALSE]

PairInit ==
    /\ bearer_token = "token"
    /\ endpoint = "tweets/search/recent"
    /\ max_tweets = MaxTweetsBound
    /\ max_requests = PairRequests - 1
    /\ output_format = "a"
    /\ NewInstance(0, PairBodies)
    /\ NoProjection
    /\ NoSink
    /\ NoThreads
    /\ NoMerge
    /\ NoCli
    /\ error = "none"
    /\ out = <<>>
    /\ pc = "pair"
    /\ instances = [i \in Instances |-> NewPairInstance]
    /\ scripts \in [Instances -> [1..PairRequests -> PairBodies]]

pairrest == <<cfgvars, pagevars, session, callvars, indexvars, received,
              sinkvars, threadvars, mergevars, clivars, request_parameters,
              total_results, n_requests, stream_started, idx, out, pages,
              paused, pc, error>>

\* stream, line 352: init_session
PairStart(i) ==
    LET me == instances[i]
        new == FreshSession(n_sessions)
    IN  /\ me.pc = "created"
        /\ n_sessions' = n_sessions + 1
        /\ open' = Closed(open, me.session) \cup {new}
        /\ instances' = [instances EXCEPT ![i] =
               [me EXCEPT !.session = new, !.pc = "request"]]
        /\ UNCHANGED <<pairrest, scripts, session_request_counter>>

\* execute_request (lines 405-427): the request on self.session and the
\* attributes read from the body
PairRequest(i) ==
    LET me == instances[i]
        k == me.n_requests + 1
        body == scripts[i][k]
        refresh == RefreshNeeded(me.n_requests)
        new == FreshSession(n_sessions)
        sess == IF refresh THEN new ELSE me.session
    IN  /\ me.pc = "request"
        /\ IF refresh
           THEN /\ n_sessions' = n_sessions + 1
                /\ open' = Closed(open, me.session) \cup {new}
           ELSE UNCHANGED <<n_sessions, open>>
        /\ session_request_counter' = session_request_counter + 1
        /\ instances' = [instances EXCEPT ![i] =
               [me EXCEPT
                   !.session = sess,
                   !.closed = IF refresh THEN @ \cup {me.session} ELSE @,
                   !.reqs = Append(@, me.request_token),
                   !.used = @ \cup {sess},
                   !.on_closed = @ \/ sess \notin open',
                   !.n_requests = k,
                   !.current_tweets = DataOf(body, k),
                   !.next_token = IF body.meta = "token" THEN k ELSE 0,
                   !.pc = "top"]]
        /\ UNCHANGED <<pairrest, scripts>>

\* stream, lines 359-361, and output_atomic_format (lines 308-312): one
\* tweet is handed to the caller and counted, or the loop over the page ends
PairEmit(i) ==
    LET me == instances[i]
    IN  /\ me.pc \in {"top", "emit"}
        /\ me.current_tweets # None
        /\ instances' = [instances EXCEPT ![i] =
               IF me.pc = "top"
               THEN [me EXCEPT !.idx = 1, !.pc = "emit"]
               ELSE IF me.idx > Len(me.current_tweets[1])
                       \/ CapReached(me.total_results, max_tweets)
               THEN [me EXCEPT !.pc = "check"]
               ELSE [me EXCEPT
                        !.out = Append(@, me.current_tweets[1][me.idx]),
                        !.total_results = @ + 1,
                        !.idx = @ + 1]]
        /\ UNCHANGED <<pairrest, scripts, n_sessions, open,
                       session_request_counter>>

\* stream, lines 363-375: the next page is requested
PairPaginate(i) ==
    LET me == instances[i]
    IN  /\ me.pc = "check"
        /\ StreamContinue(me.next_token, me.total_results, max_tweets,
                          me.n_requests, max_requests)
        /\ instances' = [instances EXCEPT ![i] =
               [me EXCEPT !.request_token = me.next_token,
                          !.pc = "request"]]
        /\ UNCHANGED <<pairrest, scripts, n_sessions, open,
                       session_request_counter>>

\* stream, lines 359-360 and 377-383: the loop is left, the buffer is
\* cleared and self.session is closed
PairEnd(i) ==
    LET me == instances[i]
    IN  /\ \/ me.pc = "top" /\ me.current_tweets = None
           \/ /\ me.pc = "check"
              /\ ~StreamContinue(me.next_token, me.total_results,
                                 max_tweets, me.n_requests, max_requests)
        /\ open' = open \ {me.session}
        /\ instances' = [instances EXCEPT ![i] =
               [me EXCEPT !.current_tweets = None,
                          !.closed = @ \cup {me.session},
                          !.pc = "done"]]
        /\ UNCHANGED <<pairrest, scripts, n_sessions,
                       session_request_counter>>

PairNext ==
    \E i \in Instances :
        \/ PairStart(i)
        \/ PairRequest(i)
        \/ PairEmit(i)
        \/ PairPaginate(i)
        \/ PairEnd(i)

PairSpec == PairInit /\ [][PairNext]_vars

\* ------------------------------------------------- properties of the code
ItemMode == output_format \in {"a", "m"}
InRequest == {"pause", "request", "backoff", "returned"}
Finished == {"done", "error", "abandoned"}

\* The tweets among the yielded objects, in the order they were yielded
TweetsOf(seq) == SelectSeq(seq, LAMBDA o : o[1] = "tweet")

\* The tweets of pages 1..n, in page order and in item order
RECURSIVE Concatenation(_)
Concatenation(n) ==
    IF n = 0 THEN <<>>
    ELSE Concatenation(n - 1) \o
         [i \in 1..pages[n].data |-> <<"tweet", n, i>>]

RECURSIVE ItemCount(_)
ItemCount(n) == IF n = 0 THEN 0 ELSE ItemCount(n - 1) + pages[n].data

CarriesToken(b) == b.ok /\ b.meta = "token"
CarriesNoToken(b) == b.ok /\ b.meta # "token"
CarriesItems(b) == b.ok /\ b.data >= 0

\* Pages 1..n-1 carry items and a next token, page n carries items and no
\* next token, and neither cap binds on the way.
PagedRun(n) ==
    /\ n \in 1..Len(pages)
    /\ \A k \in 1..(n - 1) : CarriesItems(pages[k]) /\ CarriesToken(pages[k])
    /\ CarriesItems(pages[n]) /\ CarriesNoToken(pages[n])
    /\ n < max_requests
    /\ ItemCount(n) < max_tweets

\* The cut-off of Paginate never stops the code.
ReqCapNeverBinds ==
    (pc = "check" /\ StreamContinue(next_token, total_results, max_tweets,
                                    n_requests, max_requests))
        => n_requests < ReqCap

\* C1: total_results never exceeds max_tweets, in any output format.
C1_TotalAtMostMaxTweets == total_results <= max_tweets

\* C2: n_requests never exceeds max_requests.
C2_RequestsAtMostMax == n_requests <= max_requests

\* C3: in formats a and m, when neither cap binds and pages 1..n-1 carry a
\* next token and page n does not, no request follows page n and the
\* finished stream has yielded exactly the tweets of pages 1..n in order.
C3_PagesConcatenated ==
    \A n \in 1..Len(pages) :
        (ItemMode /\ PagedRun(n)) =>
            /\ Len(pages) = n
            /\ pc \notin InRequest
            /\ pc = "done" => TweetsOf(out) = Concatenation(n)

\* C3 holds of the pages whose last one has a meta object without token.
C3_WithMeta ==
    \A n \in 1..Len(pages) :
        (ItemMode /\ PagedRun(n) /\ pages[n].meta = "plain") =>
            /\ Len(pages) = n
            /\ pc \notin InRequest
            /\ pc = "done" => TweetsOf(out) = Concatenation(n)

\* C4: in formats a and m, once a page has arrived and total_results has
\* reached max_tweets, exactly max_tweets tweets have been yielded and no
\* request is in progress, whatever is left of the page and its token.
C4_CapMidPage ==
    (ItemMode /\ n_requests >= 1 /\ total_results >= max_tweets) =>
        /\ Len(TweetsOf(out)) = max_tweets
        /\ pc \notin InRequest
        /\ Len(pages) = n_requests

C4_Witness ==
    /\ ItemMode /\ pc = "done" /\ max_tweets = 1 /\ max_requests >= 2
    /\ pages = <<[ok |-> TRUE, data |-> 2, inc |-> TRUE, meta |-> "token"]>>
    /\ TweetsOf(out) = <<<<"tweet", 1, 1>>>>

\* C5: after a parsed page without next token (meta without the token, or
\* no meta), no further request is issued.
C5_NoTokenIsTerminal ==
    (Len(pages) >= 1 /\ CarriesNoToken(pages[Len(pages)])) =>
        pc \notin InRequest

\* C5 holds of the pages that have a meta object.
C5_WithMeta ==
    (Len(pages) >= 1 /\ pages[Len(pages)].ok
        /\ pages[Len(pages)].meta = "plain") => pc \notin InRequest

C6_LoopsBounded ==
    /\ n_requests <= max_requests + 1
    /\ attempts <= max_tries + 1
    /\ pc \in InRequest => n_requests <= max_requests
    /\ pc \in {"emit_tweet", "yielded_tweet"} =>
           idx <= Len(current_tweets[1]) + 1

C7_SessionClosedOnExit == pc \in Finished => open = {}

\* C8: the executor hands the stream only responses of status 200.
C8_Only200Returned == pc = "returned" => resp_status = 200

\* C9: an attempt answered with a status other than 200, 429 and 5xx makes
\* the executor raise HTTPError in that very iteration.
FatalStatus(status) ==
    status \in Statuses /\ status \notin {200, 429} /\ status < 500

C9_FatalRaisesAtOnce ==
    [][(pc = "request" /\ attempts' = attempts + 1
            /\ FatalStatus(resp_status') /\ error' # "ConnectionError")
        => (pc' = "error" /\ error' = "HTTPError")]_vars

\* C9 holds of every attempt made while tries < max_tries.
C9_WithinBudget ==
    [][(pc = "request" /\ attempts' = attempts + 1 /\ tries < max_tries
            /\ FatalStatus(resp_status') /\ error' # "ConnectionError")
        => (pc' = "error" /\ error' = "HTTPError" /\ sleeps' = sleeps)]_vars

\* C10: a 200 reply after k < max_tries retryable failures ends the call:
\* it is returned, after k + 1 attempts and k sleeps, and the call neither
\* sleeps nor tries again.
C10_RetriesThenSuccess ==
    [][/\ (pc = "request" /\ attempts' = attempts + 1
              /\ resp_status' = 200 /\ failed < max_tries)
          => (pc' = "returned" /\ failed' = failed
                 /\ attempts' = failed + 1 /\ sleeps' = failed)
       /\ pc = "returned" => pc' \notin {"request", "backoff"}]_vars

C10_Witness ==
    pc = "returned" /\ resp_status = 200 /\ failed = max_tries - 1
\* C11: one call of the executor makes at most max_tries attempts.
C11_AtMostMaxTries == attempts <= max_tries

\* C12: an attempt in which func raises a connection error ends the call
\* with that error, without sleep; nothing follows the error.
C12_ConnectionErrorNotRetried ==
    [][/\ (pc = "request" /\ func_raised')
          => (pc' = "error" /\ error' = "ConnectionError"
                 /\ sleeps' = sleeps /\ slept' = slept)
       /\ pc = "error" => attempts' = attempts]_vars

C12_Witness ==
    pc = "error" /\ func_raised /\ attempts >= 2 /\ sleeps = attempts - 1

\* C13: every sleep that follows a 429 lasts at least min_rate_sleep seconds.
C13_RateSleepAtLeast30 ==
    (pc = "backoff" /\ resp_status = 429) => sleep_seconds >= min_rate_sleep

\* C13 as it holds: a sleep that follows a 429 lasts 4 seconds after the
\* first failed attempt, 16 after the second, and at least min_rate_sleep
\* seconds from the third failed attempt on.
C13_RateSleepFloor ==
    (pc = "backoff" /\ resp_status = 429) =>
        /\ failed = 1 => sleep_seconds = 4
        /\ failed = 2 => sleep_seconds = 16
        /\ failed >= 3 => sleep_seconds >= min_rate_sleep

C13_Witness ==
    /\ pc = "backoff" /\ resp_status = 429 /\ failed = max_tries
    /\ rate_slept = rate_window /\ sleep_seconds = min_rate_sleep

\* C14: the sleep before retry number k (k counts the failed attempts of the
\* call) is 30 seconds after a status >= 500 and
\* min((2k)^2, max(900 - S, 30)) after a 429, S being the seconds already
\* slept after 429s in this call.
C14_SleepFormula ==
    pc = "backoff" =>
        sleep_seconds =
            IF resp_status >= 500 THEN 30
            ELSE Min((2 * failed) * (2 * failed),
                     Max(900 - rate_slept, 30))

C14_Witness ==
    /\ pc = "backoff" /\ resp_status = 429 /\ failed = 9
    /\ slept > rate_slept /\ rate_slept > 0
    /\ sleep_seconds < (2 * failed) * (2 * failed)

\* C15: the seconds slept in one call never exceed rate_window by more than
\* one min_rate_sleep.
C15_TotalSleepBounded == slept <= rate_window + min_rate_sleep

\* C15 holds of the sleeps that follow a 429.
C15_RateSleepBounded ==
    /\ rate_slept <= rate_window + min_rate_sleep
    /\ total_sleep_seconds <= rate_window + min_rate_sleep
    /\ slept <= rate_slept + server_error_sleep * max_tries
\* C16: a body that is not JSON, or has neither "data" nor "meta", ends the
\* stream: nothing is yielded and nothing requested after it.
Malformed(b) == ~b.ok \/ (b.data = -1 /\ b.meta = "none")

C16_MalformedTerminates ==
    (Len(pages) >= 1 /\ Malformed(pages[Len(pages)])) =>
        pc \in {"top", "done"}

\* C16 holds of the first page, and of a later page that is JSON.
C16_FirstOrParsed ==
    (Len(pages) >= 1 /\ Malformed(pages[Len(pages)])
        /\ (Len(pages) = 1 \/ pages[Len(pages)].ok)) =>
        pc \in {"top", "done"}

\* C17: without bearer token stream() raises KeyError when it opens the
\* session: no session is made, no attempt and no request.
C17_NoCredentialNoRequest ==
    bearer_token = "None" =>
        /\ pc \in {"created", "error"}
        /\ pc = "error" => error = "KeyError"
        /\ n_requests = 0 /\ attempts = 0 /\ n_sessions = 0
        /\ session_request_counter = 0

C17_Witness == bearer_token = "None" /\ pc = "error" /\ n_requests = 0
\* C18: the k-th session of a stream serves the requests 20(k-1)+1 .. 20k
\* and no other: while a request is in progress the session is the one
\* opened after the last multiple of 20 completed requests, and it is the
\* only open one.
C18_SessionRefreshed ==
    pc \in {"request", "backoff", "returned"} =>
        /\ session = (n_requests \div 20) + 1
        /\ open = {session}

C18_Witness ==
    pc = "request" /\ n_requests = 40 /\ output_format = "m" /\ session = 3
\* C19: a request that follows a page is made only when the buffered page
\* has been handed over: in formats a and m the tweets yielded last are all
\* the tweets of current_tweets, in format r the object yielded last is
\* current_response.
C19_PageHandedBeforeNextRequest ==
    (pc \in InRequest /\ n_requests >= 1) =>
        /\ current_tweets # None
        /\ IF output_format = "r"
           THEN /\ Len(out) >= 1
                /\ out[Len(out)] = <<"page", current_response, 0>>
           ELSE LET T == TweetsOf(out)
                    L == Len(current_tweets[1])
                IN  /\ Len(T) >= L
                    /\ \A i \in 1..L :
                          T[Len(T) - L + i] =
                              <<"tweet", current_tweets[1][i][1],
                                current_tweets[1][i][2]>>

C19_Witness ==
    /\ pc = "request" /\ n_requests = 1 /\ ItemMode
    /\ Len(current_tweets[1]) = 1 /\ Len(TweetsOf(out)) = 1

\* C20: the request that follows page N carries the next token of page N's
\* meta and the query of the base payload.
C20_TokenOfPreviousPage ==
    (pc \in InRequest /\ n_requests >= 1) =>
        /\ CarriesToken(pages[n_requests])
        /\ request_parameters = [query |-> 1, next_token |-> n_requests]

\* C20 holds of the requests that follow a page with a next token, and the
\* first request carries the base payload.
C20_AfterTokenPage ==
    /\ (pc \in InRequest /\ n_requests >= 1
           /\ CarriesToken(pages[n_requests]))
       => request_parameters = [query |-> 1, next_token |-> n_requests]
    /\ (pc \in InRequest /\ n_requests = 0)
       => request_parameters = [query |-> 1, next_token |-> 0]
MessageSegment(k, j) ==
    [i \in 1..j |-> <<"tweet", k, i>>]
        \o (IF pages[k].inc THEN <<<<"includes", k, 0>>>> ELSE <<>>)
        \o (IF pages[k].meta # "none" THEN <<<<"meta", k, 0>>>> ELSE <<>>)

\* o is made of one segment for each of the pages 1..n, in page order
RECURSIVE IsSegments(_, _)
IsSegments(o, n) ==
    IF n = 0 THEN o = <<>>
    ELSE \E j \in 0..Max(pages[n].data, 0) :
            LET seg == MessageSegment(n, j)
            IN  /\ Len(o) >= Len(seg)
                /\ SubSeq(o, Len(o) - Len(seg) + 1, Len(o)) = seg
                /\ IsSegments(SubSeq(o, 1, Len(o) - Len(seg)), n - 1)

\* C23: in format m, once a page has been formatted, what has been yielded
\* is, for every page received so far and in page order, some of its tweets,
\* then its includes exactly when it has includes, then its meta exactly when
\* it has meta; and total_results is the number of tweets yielded.
C23_MessageOrder ==
    (output_format = "m" /\ pc = "check") =>
        /\ IsSegments(out, n_requests)
        /\ total_results = Len(TweetsOf(out))

\* C23 holds as long as every body received was JSON.
C23_ParsedPages ==
    (output_format = "m" /\ pc = "check"
        /\ \A k \in 1..Len(pages) : pages[k].ok) =>
        /\ IsSegments(out, n_requests)
        /\ total_results = Len(TweetsOf(out))

\* ---- properties of the projector (ProjectSpec)
\* What the page in hand was made of, and the tweet it carries
Shape == received.shape
Kind == received.kind
ReceivedIncludes == MakeIncludes(Kind)
Emitted == output_format = "a" /\ Len(out) >= 1

\* The entity of the received includes that id refers to, if there is one
Missing(expansion, _id, id) ==
    id \notin DOMAIN ExtractFrom(ReceivedIncludes, expansion, _id)
Included(expansion, _id, id) ==
    IF Missing(expansion, _id, id) THEN EmptyDict
    ELSE ExtractFrom(ReceivedIncludes, expansion, _id)[id]

\* C22: in format r the object yielded for a page is the parsed body as it
\* was received, one object for the page.
C22_ResponseAsReceived ==
    (output_format = "r" /\ pc = "formatted") => out = <<received.body>>

\* C22 holds of a page whose included tweets carry no reference key.
C22_FlatResponse ==
    (output_format = "r" /\ pc = "formatted" /\ Kind # "refs")
        => out = <<received.body>>

\* C24: a tweet with media_keys k1..kn is expanded without error, and its
\* media list has n elements, the i-th being the included media entity of
\* key ki, or the empty object when the includes have none.
C24_MediaResolved ==
    (output_format = "a" /\ Shape.media # None /\ WellFormed(Shape)) =>
        /\ pc # "error"
        /\ pc = "formatted" => Len(out) = 1
        /\ Len(out) >= 1 =>
              LET keys == Shape.media[1]
                  media == Get(Get(out[1], "attachments"), "media")[2]
              IN  /\ Len(media) = Len(keys)
                  /\ \A i \in 1..Len(keys) :
                        media[i] = Included("media", "media_key", keys[i])
                  /\ Get(Get(out[1], "attachments"), "media_keys")
                         = List([i \in 1..Len(keys) |-> Prim(keys[i])])

C24_Witness ==
    /\ Emitted /\ pc = "formatted" /\ Kind = "flat"
    /\ Shape.media = Some(<<1, 2>>)
    /\ Get(Get(out[1], "attachments"), "media") = List(<<Media1, EmptyDict>>)

C26_ExpandIdempotent ==
    (Emitted /\ Kind # "refs") => expand_payload(out[1]) = out[1]

C26_Witness ==
    /\ Emitted /\ pc = "formatted" /\ Kind = "flat"
    /\ Shape.media = Some(<<1, 2>>) /\ Shape.mention = 1
    /\ out[1] # MakeItem(Shape)
    /\ expand_payload(out[1]) = out[1]

\* C27: once the page has been formatted, in any format, self.includes and
\* the includes of current_response are the includes that were received.
C27_IncludesReadOnly ==
    pc = "formatted" =>
        /\ includes = ReceivedIncludes
        /\ Kind # "none" => Get(current_response, "includes")
                                = ReceivedIncludes

\* C27 holds of the users, media, polls and places of the includes, and of
\* included tweets that carry no reference key.
C27_OnlyTweetsWritten ==
    (pc = "formatted" /\ Kind \in {"flat", "refs"}) =>
        /\ \A t \in {"users", "media", "polls", "places"} :
              Get(includes, t) = Get(ReceivedIncludes, t)
        /\ Kind = "flat" => includes = ReceivedIncludes

\* ---- properties of the sink (SinkSpec)
IsPrefix(a, b) == Len(a) <= Len(b) /\ SubSeq(b, 1, Len(a)) = a
SinkFinished == pc \in {"done", "error"}

\* The places (file, line) at which an item is stored
Stored(item) ==
    {fl \in UNION {{<<f, i>> : i \in DOMAIN files[f]} : f \in DOMAIN files} :
        files[fl[1]][fl[2]] = item}

\* C28: what the sink hands to its caller is what the wrapped stream has
\* yielded, in the same order, nothing dropped or added; and an item is
\* handed over only after it has been written.
C28_PassThrough ==
    /\ IsPrefix(out, produced)
    /\ SinkFinished => out = produced
    /\ IsPrefix(out, written)

\* C28 holds when the stream ends without raising, and without
\* results_per_file also when it raises.
C28_CompleteStream ==
    /\ IsPrefix(out, produced)
    /\ (pc = "done" \/ (SinkFinished /\ results_per_file = 0))
           => out = produced
    /\ IsPrefix(out, written) /\ Len(written) <= Len(out) + 1

\* C29: when the sink has written out a stream that ended, every item of
\* the stream is at exactly one place of one file; with results_per_file =
\* n a file holds at most n items, and k items are in as many files as k
\* items need; without it all items are in "<prefix>.json".
C29_EveryItemInOneFile ==
    pc = "done" =>
        /\ \A i \in 1..Len(produced) : Cardinality(Stored(produced[i])) = 1
        /\ results_per_file # 0 =>
              /\ \A f \in DOMAIN files : Len(files[f]) <= results_per_file
              /\ Cardinality(DOMAIN files) * results_per_file
                     >= Len(produced)
              /\ (Cardinality(DOMAIN files) - 1) * results_per_file
                     < Len(produced) \/ Len(produced) = 0
        /\ results_per_file = 0 =>
              (DOMAIN files = {0} /\ files[0] = produced)

\* C29 holds when no two files are opened within the same second.
C29_OneFilePerSecond ==
    (pc = "done"
        /\ \A i, j \in 1..Len(opened) : opened[i] = opened[j] => i = j) =>
        /\ \A i \in 1..Len(produced) : Cardinality(Stored(produced[i])) = 1
        /\ results_per_file # 0 =>
              /\ \A f \in DOMAIN files : Len(files[f]) <= results_per_file
              /\ Cardinality(DOMAIN files) * results_per_file
                     >= Len(produced)
              /\ (Cardinality(DOMAIN files) - 1) * results_per_file
                     < Len(produced) \/ Len(produced) = 0
        /\ results_per_file = 0 =>
              (DOMAIN files = {0} /\ files[0] = produced)

\* ---- properties of the counter (CounterSpec)
RECURSIVE SumRequests(_)
SumRequests(t) ==
    IF t = 0 THEN 0 ELSE SumRequests(t - 1) + thread_n_requests[t]

\* The requests completed whose increment of the counter is not yet written
Pending == Cardinality({t \in Threads : thread_pc[t] \in {"load", "store"}})

\* C30: session_request_counter is the number of requests completed by all
\* instances of the process, whatever the threads do at the same time: it
\* accounts for every completed request whose increment has been written.
C30_NoIncrementLost ==
    session_request_counter + Pending = SumRequests(NumThreads)

\* C30 holds as long as one thread only uses the class.
C30_OneThread ==
    (\A t \in Threads : t > 1 => thread_pc[t] = "idle") =>
        session_request_counter + Pending = SumRequests(NumThreads)

\* C30 holds of one instance paging alone: the counter is its n_requests.
C30_OneInstance == session_request_counter = n_requests

\* ---- the counters of an instance
\* The tweets handed to the caller so far
Handed == Len(TweetsOf(out))

\* C32 (as stated): in the item-emitting formats total_results has grown by
\* 1 for every item handed to the caller, so that it is the number of items
\* handed once the generator is finished or closed.
C32_TotalIsItemsHanded ==
    (ItemMode /\ pc \in Finished) => total_results = Handed

\* C32 (amended): n_requests and total_results never decrease; n_requests
\* grows by exactly 1 when a page request returns, whatever its attempts,
\* and by nothing otherwise; in the item-emitting formats total_results
\* grows by exactly 1 when the generator is resumed after handing an item,
\* so that it counts the items handed but for the one the generator is
\* suspended at.
C32_CountersGrowByOne ==
    [][/\ n_requests' = n_requests + (IF pc = "returned" THEN 1 ELSE 0)
       /\ total_results' >= total_results
       /\ ItemMode =>
            /\ total_results' =
                   total_results + (IF pc = "yielded_tweet" /\ pc' = "emit_tweet"
                                    THEN 1 ELSE 0)
            /\ Handed' = total_results' + (IF pc' = "yielded_tweet" THEN 1 ELSE 0)
                 \/ pc' = "abandoned"
            /\ pc' = "abandoned" => Handed' \in {total_results', total_results' + 1}
      ]_vars

\* A second request that needed a retry is about to be counted, after the
\* one item handed so far has been counted.
C32_Witness ==
    /\ ItemMode
    /\ pc = "returned"
    /\ attempts = 2
    /\ n_requests = 1
    /\ total_results = 1
    /\ Handed = 1

\* ---- the end of the stream
\* C33: when stream() ends normally the session is closed and the buffered
\* page (current_response, current_tweets) is cleared.
C33_ClosedAndClearedAtEnd ==
    pc = "done" =>
        /\ session \notin open
        /\ open = {}
        /\ current_response = 0
        /\ current_tweets = None

\* The stream ended at the request cap, after output, with a token in hand
C33_Witness ==
    /\ pc = "done"
    /\ n_requests > max_requests
    /\ next_token # 0
    /\ total_results < max_tweets
    /\ out # <<>>
    /\ session # 0

\* The body received last is a parsed object without a "data" key
NoDataPage ==
    /\ pages # <<>>
    /\ pages[Len(pages)].ok
    /\ pages[Len(pages)].data = -1

\* C36: once a parsed page without "data" has arrived the stream ends at
\* once: nothing is yielded and no request is made, whatever the format and
\* whatever next token its meta carries.
C36_NoDataEndsStream ==
    [][(pc = "top" /\ NoDataPage) =>
           /\ pc' = "done"
           /\ out' = out
           /\ pages' = pages
           /\ n_requests' = n_requests]_vars

\* The stream ended on a page without "data" that carried a next token,
\* with both caps unexhausted and after an earlier page was put out
C36_Witness ==
    /\ pc = "done"
    /\ NoDataPage
    /\ pages[Len(pages)].meta = "token"
    /\ next_token = Len(pages)
    /\ Len(pages) = 2
    /\ out # <<>>
    /\ total_results < max_tweets
    /\ n_requests <= max_requests

\* ---- the legacy executor (LegacySpec)
\* A call of the legacy executor has ended by an exception of its own
LegacyFailed == pc = "error" /\ ~func_raised

\* the attempts of a call are at most 4, each but the first after a sleep
\* of one second, and a response is returned only with status 200
LegacyAttemptsAndSleeps ==
    /\ attempts <= MAX_TRIES + 1
    /\ slept = sleeps * legacy_sleep_seconds
    /\ pc = "legacy_request" => attempts = sleeps
    /\ pc \in {"legacy_sleep", "legacy_parse", "error"} =>
           attempts = sleeps + 1
    /\ pc = "legacy_parse" => resp_status = 200
    /\ LegacyFailed => attempts = MAX_TRIES + 1 /\ resp_status # 200

\* C38: one call of the legacy executor makes at most 4 attempts, each
\* retry after a sleep of 1 second, returns a response only when its status
\* is 200, and raises HTTPError when the last attempt is still non-200.
C38_LegacyRetries ==
    /\ LegacyAttemptsAndSleeps
    /\ LegacyFailed => error = "HTTPError"

\* C38 holds for the statuses listed in GNIP_RESP_CODES.
C38_ListedStatuses ==
    /\ LegacyAttemptsAndSleeps
    /\ (LegacyFailed /\ resp_status \in GnipCodes) => error = "HTTPError"

\* ---- authors (ProjectSpec)
\* The author and the user replied to are the included users of those ids
UsersAttached ==
    LET e == out[1]
    IN  /\ (Shape.author # 0 /\ ~Missing("users", "id", Shape.author))
           => Get(e, "author") = Included("users", "id", Shape.author)
        /\ (Shape.reply # 0 /\ ~Missing("users", "id", Shape.reply))
           => Get(e, "in_reply_to_user")
                  = Included("users", "id", Shape.reply)

\* C34: when an included user has the id that author_id (or
\* in_reply_to_user_id) names, the expanded tweet carries exactly that user
\* under author (or in_reply_to_user), whatever the ids and the usernames
\* of the included users.
C34_AuthorAttached == (Emitted /\ WellFormed(Shape)) => UsersAttached

\* C34 holds when no included user has a username that is the id of an
\* included user.
C34_NoUsernameIsAnId ==
    (Emitted /\ WellFormed(Shape) /\ Kind # "clash") => UsersAttached

\* ---- the sessions of an instance (AgainSpec)
\* C35: a request is only issued on a session that is open, and the
\* instance never has more than one open session, the one it holds: also
\* after stream() has been called again.
C35_OneOpenSession ==
    /\ pc = "request" => session \in open
    /\ open \subseteq {session}
    /\ Cardinality(open) <= 1

\* stream() was called again on an instance whose generator the caller had
\* closed with its session open, and the new generator is about to request
C35_Witness ==
    /\ pc = "request"
    /\ n_sessions = 2
    /\ session = 2
    /\ open = {2}
    /\ n_requests >= 1
    /\ out # <<>>

\* ---- merge_dicts (MergeSpec)
\* The keys of the arguments, and the last argument that has the key k
KeysPassed == UNION {DOMAIN passed[dicts[i]] : i \in DOMAIN dicts}
LastWith(k) ==
    CHOOSE i \in DOMAIN dicts :
        /\ k \in DOMAIN passed[dicts[i]]
        /\ \A j \in DOMAIN dicts : k \in DOMAIN passed[dicts[j]] => j <= i

\* What merge_dicts returned has the keys of all arguments, each with the
\* value of the last argument that has it; no argument was modified
MergedContent ==
    /\ DOMAIN heap[merged] = KeysPassed
    /\ \A k \in KeysPassed : heap[merged][k] = passed[dicts[LastWith(k)]][k]
    /\ \A o \in DOMAIN passed : heap[o] = passed[o]

\* C37: merge_dicts(d1, ..., dn) returns a new dictionary with the union of
\* the keys, each with the value of the last input that has it, and
\* modifies no input.
C37_NewMergedDict ==
    pc = "merge_returned" =>
        /\ MergedContent
        /\ merged \notin DOMAIN passed

\* C37 holds of two or more arguments; of one argument all but the new
\* dictionary holds.
C37_TwoOrMore ==
    pc = "merge_returned" =>
        /\ MergedContent
        /\ Len(dicts) >= 2 => merged \notin DOMAIN passed

\* ---- the merged configuration (CliSpec)
\* The key k keeps in config_dict the value the config file gives it
KeepsConfigValue(k) ==
    /\ k \in DOMAIN config_dict
    /\ config_dict[k] = configfile_dict[k]

\* The config file sets k, and neither the command line nor the
\* credentials give it
OnlyInConfigFile(k) ==
    /\ k \in DOMAIN configfile_dict
    /\ configfile_dict[k] # "None"
    /\ k \notin argv
    /\ k \notin DOMAIN dict_filter(creds_dict)

\* C39: a key the config file sets keeps its config-file value in the
\* merged configuration unless the option was given on the command line or
\* the credentials supply the key.
C39_ConfigFileKept ==
    pc = "cli_merged" =>
        \A k \in ConfigKeys : OnlyInConfigFile(k) => KeepsConfigValue(k)

\* C39 holds of the options whose argparse default is None.
C39_OptionsWithoutDefault ==
    pc = "cli_merged" =>
        \A k \in ConfigKeys :
            (OnlyInConfigFile(k) /\ ArgDefault(tool, k) = "None")
                => KeepsConfigValue(k)

\* ---- two instances (PairSpec)
\* What stream() yields and the next_token of each request it issues when
\* the instance is run alone against the bodies of script, from its k-th
\* request on: total tweets have been yielded and the request carries token
RECURSIVE AloneFrom(_, _, _, _, _, _)
AloneFrom(script, k, total, token, yielded, requested) ==
    LET body == script[k]
        sent == Append(requested, token)
        tweets == DataOf(body, k)
    IN  IF tweets = None THEN [out |-> yielded, reqs |-> sent]
        ELSE LET room == IF total >= max_tweets THEN 0
                         ELSE max_tweets - total
                 n == Min(Len(tweets[1]), room)
                 next == IF body.meta = "token" THEN k ELSE 0
             IN  IF StreamContinue(next, total + n, max_tweets, k,
                                   max_requests)
                 THEN AloneFrom(script, k + 1, total + n, next,
                                yielded \o SubSeq(tweets[1], 1, n), sent)
                 ELSE [out |-> yielded \o SubSeq(tweets[1], 1, n),
                       reqs |-> sent]

Alone(i) == AloneFrom(scripts[i], 1, 0, 0, <<>>, <<>>)

\* C31: under every interleaving each of two instances yields and requests
\* what it would alone against the same bodies, and all of it once it is
\* done; every request of an instance is issued on an open session that no
\* other instance requests on or closes.
C31_Independent ==
    \A i \in Instances :
        LET me == instances[i]
        IN  /\ IsPrefix(me.out, Alone(i).out)
            /\ IsPrefix(me.reqs, Alone(i).reqs)
            /\ me.pc = "done" =>
                  me.out = Alone(i).out /\ me.reqs = Alone(i).reqs
            /\ ~me.on_closed
            /\ \A j \in Instances \ {i} :
                  me.used \cap (instances[j].used \cup instances[j].closed)
                      = {}

\* Both instances are in the middle of their runs, each with a page put
\* out and a second request to issue
C31_Witness ==
    \A i \in Instances :
        /\ instances[i].pc = "request"
        /\ instances[i].n_requests = 1
        /\ instances[i].out # <<>>
        /\ instances[i].session \in open
====
